---- MODULE Spec2Model ----
(***************************************************************************)
(* Model of the extraction pipeline controller of grail_scraper            *)
(* (frontend/src/App.jsx): the scraped and the uploaded pipeline, the      *)
(* per-document loop processDocumentPayloads, the question reload          *)
(* loadQuestions and the React state they share.                           *)
(*                                                                         *)
(* An async function runs synchronously from one await to the next, so     *)
(* every action below is one such segment: it handles the response of the  *)
(* call the run is waiting for and runs the code up to (and including the  *)
(* issue of) the next awaited call.  The values a function reads from      *)
(* React state are those of the render it was created in, so a run keeps   *)
(* the subject and category it captured when it was started.               *)
(***************************************************************************)
EXTENDS Integers, Sequences, FiniteSets, TLC

(* ----------------------------- bounds ---------------------------------- *)
MaxDocs == 2        \* documents in one batch
MaxLoads == 1       \* effect-triggered loadQuestions calls in flight
MaxPipelines == 2   \* pipelines that run in one behaviour of SpecTermination

(* --------------------------- program constants -------------------------- *)
CANONICAL_CATEGORY == "GCE 'A' Levels"
DefaultSubject == "Economics"
clientSessionId == "session-1"

\* One run record per pipeline: at most one scraped and one uploaded run are
\* in progress at a time (a click on a pipeline's button while its previous
\* run is still in progress is left out).
RunIds == {"scraped", "uploaded"}

Subjects == {"All", "Economics"}

(* The context objects the backend attaches to the documents it returns    *)
(* (GET /data, POST /uploads/question-documents/extract).  A missing field *)
(* is the empty string, which JavaScript treats as absent (falsy).  The     *)
(* first context carries a client_session_id of its own, the second none.  *)
WithSubject ==
    [document_name |-> "paper1.pdf", subject |-> "Economics", category |-> "A-Level",
     client_session_id |-> "session-other"]
WithoutSubject ==
    [document_name |-> "paper2.pdf", subject |-> "", category |-> "",
     client_session_id |-> ""]

\* The batches a response can carry: the first n documents of a listing in
\* which documents with and without a subject alternate.
DocBatches ==
    { [i \in 1..n |-> IF i % 2 = 1 THEN WithSubject ELSE WithoutSubject] : n \in 1..MaxDocs }


(* Oracle output.  A response text is a sequence of tokens: FENCE_JSON and  *)
(* FENCE are the two markers the code strips (three backticks followed by  *)
(* json, and three backticks), " " is white space, "V" the text of one     *)
(* complete JSON value and "x" text that is not JSON.  value is the object *)
(* the "V" token denotes.                                                  *)
MarkedText == <<"Explain", "[", "10", "]">>              \* ends with [digits]
TotalText == <<"Explain", "[", "Total: 30", "]">>         \* bracket, not a pure integer
QuotedText == <<"the", "[", "but", "]", "limited">>       \* bracket inside the text
PlainText == <<"Explain">>                                \* no bracket at all
TaxonomyLine == "1.1 Demand and supply"
Item(chapter, question) == [chapter |-> chapter, question |-> question]
ExamItems ==
    { Item(TaxonomyLine, MarkedText), Item(TaxonomyLine, TotalText),
      Item(TaxonomyLine, PlainText), Item("9.9 Nonexistent", MarkedText),
      Item("", MarkedText) }
UnderstandingItems ==
    { Item(TaxonomyLine, PlainText), Item(TaxonomyLine, QuotedText),
      Item("9.9 Nonexistent", PlainText) }
NoResult == [exam |-> <<>>, understanding |-> <<>>]
GoodResult == [exam |-> <<Item(TaxonomyLine, MarkedText)>>,
               understanding |-> <<Item(TaxonomyLine, PlainText)>>]
ResultObjs ==
    { [exam |-> <<i>>, understanding |-> <<>>] : i \in ExamItems }
    \cup { [exam |-> <<>>, understanding |-> <<i>>] : i \in UnderstandingItems }
    \cup { NoResult, GoodResult }
Fenced(v) == [toks |-> <<"FENCE_JSON", "V", " ", "FENCE">>, value |-> v]
Unparseable(toks) == [toks |-> toks, value |-> NoResult]
\* The outputs the oracle gives in Spec: one well-formed answer in a fence,
\* and two texts that are not JSON once the fences are removed.
OracleOutputs ==
    { Fenced(GoodResult), Unparseable(<<"FENCE_JSON", " ", "x", "FENCE">>),
      Unparseable(<<"V", "FENCE", "V">>) }
\* The outputs the oracle gives in SpecValidation: every result object.
ValidationOutputs ==
    { [toks |-> <<"V">>, value |-> v] : v \in ResultObjs }
NoOutput == [toks |-> <<>>, value |-> NoResult]

(* Messages of the errors a step can raise; the empty string is an error   *)
(* without a message.                                                      *)
NetworkErrorMessage == "Failed to fetch"
SyntaxErrorMessage == "Unexpected token"          \* JSON.parse in parseAiJson
BodyErrorMessage == "Unexpected end of JSON input"  \* res.json() of a response
OracleErrorMessages == {"", "oracle unavailable"}
DetailTexts == {"", "Internal Server Error"}

VARIABLES
    subject,             \* React state subject
    category,            \* React state category
    document_name,       \* React state document_name
    questionUploadFiles, \* TRUE when the upload input holds at least one file
    isLoading,           \* React state isLoading
    isScrapingDocs,      \* React state isScrapingDocs
    status,              \* React state status: [type, message]
    puterAvailable,      \* window.puter?.ai?.chat is defined
    loads,               \* effect-triggered loadQuestions calls in flight
    runs,                \* the pipeline runs: RunIds -> run record
    lastContext,         \* body of the most recently issued POST /context
    subtopics,           \* React state subtopics: the taxonomy items loaded
    selectedSubtopicCodes, \* React state selectedSubtopicCodes
    callArgs,            \* a call of a module-level function: its name and arguments
    callResult,          \* what that call returned, or NoCall before it returns
    questionSearch,      \* React state questionSearch: the text of the search input
    debouncedQuestionSearch, \* React state debouncedQuestionSearch
    searchTimer,         \* the timeout of the debounce effect: [pending, left]
    queries,             \* GET /questions requests in flight, in the order issued
    latestQuery,         \* the query most recently issued, or NoQuery
    shownQuery,          \* the query whose response the question lists hold
    scrapedQuestions,    \* React state scrapedQuestions: the length of the list
    uploadedQuestions,   \* React state uploadedQuestions: the length of the list
    resultsView,         \* React state resultsView
    resultsPage,         \* React state resultsPage
    pageEffectDeps,      \* the dependencies the page reset effect last ran with
    collections,         \* React state collections: the ids of the rows loaded
    selectedCollectionIds, \* React state selectedCollectionIds
    collectionForAddId,  \* React state collectionForAddId
    syllabus             \* the run of extractSubtopicsFromSyllabus: [pc, subjectC]

\* The state the pipelines read and write.
pipelineVars == <<subject, category, document_name, questionUploadFiles, isLoading,
                  isScrapingDocs, status, puterAvailable, loads, runs, lastContext>>

\* The state of the sidebar selection and of the function calls.
\* The state of the search box, the question queries and the result pages.
viewVars == <<questionSearch, debouncedQuestionSearch, searchTimer, queries, latestQuery,
              shownQuery, scrapedQuestions, uploadedQuestions, resultsView, resultsPage,
              pageEffectDeps>>

\* The state of the collections panel.
collectionVars == <<collections, selectedCollectionIds, collectionForAddId>>

uiVars == <<subtopics, selectedSubtopicCodes, callArgs, callResult, viewVars, collectionVars,
            syllabus>>

vars == <<pipelineVars, uiVars>>

NoCall == [fn |-> "none"]
NoSyllabusRun == [pc |-> "idle", subjectC |-> "All"]
NoQuery == [subject |-> "All", search |-> <<>>]
NoTimer == [pending |-> FALSE, left |-> 0]

NoContext == [document_name |-> "", subject |-> "", category |-> "",
              source_type |-> "", client_session_id |-> ""]

IdleRun ==
    [ kind |-> "none", pc |-> "idle",
      subjectC |-> "All", categoryC |-> "All",   \* subject, category of the render
      documentNameC |-> "",    \* document_name of the render, until syncContext reads it
      documentPayloads |-> <<>>, index |-> 0,
      subtopicRes |-> "null",  \* subtopicRes: "null", or the response's status "ok" / "notok"
      contextPayload |-> NoContext,
      output |-> NoOutput,
      started |-> {},          \* documents whose context push was issued
      contextDone |-> {},      \* documents whose context push was answered
      persisted |-> {},        \* documents whose POST /ai-result completed
      configPushes |-> 0,      \* POST /scraper/config requests answered
      err |-> "",              \* message of the error that ended the run
      succeeded |-> FALSE ]    \* the success status was set for this run

Idle(message) == [type |-> "idle", message |-> message, n |-> 0]
Success(message, n) == [type |-> "success", message |-> message, n |-> n]
Error(message) == [type |-> "error", message |-> message, n |-> 0]

(* ------------------------------ pure helpers ---------------------------- *)

\* output.replace(/```json|```/g, ""): every fence marker is removed.
StripFences(toks) == SelectSeq(toks, LAMBDA t : t \notin {"FENCE_JSON", "FENCE"})

RECURSIVE TrimLeft(_)
TrimLeft(toks) ==
    IF toks # <<>> /\ Head(toks) = " " THEN TrimLeft(Tail(toks)) ELSE toks

RECURSIVE TrimRight(_)
TrimRight(toks) ==
    IF toks # <<>> /\ toks[Len(toks)] = " "
    THEN TrimRight(SubSeq(toks, 1, Len(toks) - 1))
    ELSE toks

\* String.prototype.trim
Trim(toks) == TrimRight(TrimLeft(toks))

\* JSON.parse succeeds exactly on the text of one JSON value.
JsonParses(toks) == toks = <<"V">>

\* A lenient parser, for comparison: it raises only when the text holds no
\* JSON value at all, and otherwise reads the first value it finds.
parseAiJsonLenient(output) == SelectSeq(output.toks, LAMBDA t : t = "V") = <<>>

\* parseAiJson raises a SyntaxError instead of returning.
parseAiJsonThrows(output) == ~JsonParses(Trim(StripFences(output.toks)))

\* The object parseAiJson returns when it does not raise.
parseAiJson(output) == output.value

\* A payload in which the fields of the context come last, for comparison:
\* { client_session_id: clientSessionId, ...(context || {}) }
ContextPayloadOfContextLast(context, kind) ==
    [ document_name |-> context.document_name,
      subject |-> context.subject,
      category |-> context.category,
      source_type |-> kind,
      client_session_id |-> IF context.client_session_id # ""
                            THEN context.client_session_id ELSE clientSessionId ]

\* { ...(context || {}), client_session_id: clientSessionId }
ContextPayloadOf(context, kind) ==
    [ document_name |-> context.document_name,
      subject |-> context.subject,
      category |-> context.category,
      source_type |-> kind,
      client_session_id |-> clientSessionId ]

\* contextPayload?.subject || (subject === "All" ? "" : subject)
subjectForPrompt(contextPayload, subjectC) ==
    IF contextPayload.subject # "" THEN contextPayload.subject
    ELSE IF subjectC = "All" THEN "" ELSE subjectC

\* err.message || "<Scraped|Uploaded> pipeline failed."
FallbackMessage(kind) ==
    IF kind = "scraped" THEN "Scraped pipeline failed." ELSE "Uploaded pipeline failed."

\* An error status without the fallback, for comparison: err.message alone.
ErrorStatusNoFallback(message, kind) == Error(message)

ErrorStatus(message, kind) ==
    Error(IF message = "" THEN FallbackMessage(kind) ELSE message)

\* A normalization that knows one synonym only, for comparison.
normalizeCategoryOneSynonym(value) ==
    IF value = "A-Level" THEN CANONICAL_CATEGORY ELSE value

\* normalizeCategory
normalizeCategory(value) ==
    IF value = "" THEN value
    ELSE IF value = "A-Level" \/ value = "GCE \"A\" Levels" THEN CANONICAL_CATEGORY
    ELSE value

\* index += 1 of the document loop
NextIndex(index) == index + 1

Finished == {"idle", "done", "failed"}
InDocument == {"context_wait", "subtopics_wait", "oracle_wait", "result_wait"}

TypeOK ==
    /\ subject \in Subjects
    /\ category \in {"All", "A-Level"}
    /\ isLoading \in BOOLEAN /\ isScrapingDocs \in BOOLEAN
    /\ questionUploadFiles \in BOOLEAN /\ puterAvailable \in BOOLEAN
    /\ loads \in 0..MaxLoads
    /\ status.type \in {"idle", "success", "error"}
    /\ \A r \in RunIds : runs[r].index \in 0..MaxDocs

\* The initial values of the state the pipelines read and write.
InitPipeline ==
    /\ subject = "All"
    /\ category = "All"
    /\ document_name = "Document Name"
    /\ questionUploadFiles = FALSE
    /\ isLoading = FALSE
    /\ isScrapingDocs = FALSE
    /\ status = Idle("")
    /\ puterAvailable \in BOOLEAN
    /\ loads = 0
    /\ runs = [r \in RunIds |-> IdleRun]
    /\ lastContext = NoContext

\* The initial values of the state of the search box, the queries and the
\* result pages, after the effects of the first render have run (no timer is
\* left pending: the first debounce timeout sets the empty term again).
InitView ==
    /\ questionSearch = <<>>
    /\ debouncedQuestionSearch = <<>>
    /\ searchTimer = NoTimer
    /\ queries = <<>>
    /\ latestQuery = NoQuery
    /\ shownQuery = NoQuery
    /\ scrapedQuestions = 0
    /\ uploadedQuestions = 0
    /\ resultsView = "scraped"
    /\ resultsPage = 1
    /\ pageEffectDeps = <<"scraped", 0, 0>>

\* No collection is loaded, none is selected, no add target is chosen.
InitCollections ==
    /\ collections = <<>>
    /\ selectedCollectionIds = <<>>
    /\ collectionForAddId = <<>>

Init ==
    /\ InitPipeline
    /\ InitView
    /\ InitCollections
    /\ syllabus = NoSyllabusRun
    /\ subtopics = <<>>
    /\ selectedSubtopicCodes = <<>>
    /\ callArgs = NoCall
    /\ callResult = NoCall

(* ------------------------------ user actions ---------------------------- *)

\* The query effect (useEffect on subject, category, ...) of the render that
\* follows a state change: with a subject selected it calls loadQuestions,
\* which sets isLoading and an idle status and issues GET /questions.
QueryEffect(reload) ==
    IF reload
    THEN /\ loads < MaxLoads
         /\ loads' = loads + 1
         /\ isLoading' = TRUE
         /\ status' = Idle("")
    ELSE UNCHANGED <<loads, isLoading, status>>

\* The subject select: setSubject(event.target.value)
SelectSubject(s) ==
    /\ UNCHANGED uiVars
    /\ s # subject
    /\ subject' = s
    /\ QueryEffect(s # "All")
    /\ UNCHANGED <<category, document_name, questionUploadFiles, isScrapingDocs,
                   puterAvailable, runs, lastContext>>

\* The file input: setQuestionUploadFiles(Array.from(event.target.files))
SelectFiles ==
    /\ UNCHANGED uiVars
    /\ ~questionUploadFiles
    /\ questionUploadFiles' = TRUE
    /\ UNCHANGED <<subject, category, document_name, isLoading, isScrapingDocs, status,
                   puterAvailable, loads, runs, lastContext>>

\* GET /questions of an effect-triggered loadQuestions is answered: the
\* status is set and the finally block clears isLoading.
LoadQuestionsDone(outcome) ==
    /\ UNCHANGED uiVars
    /\ loads > 0
    /\ loads' = loads - 1
    /\ status' = IF outcome = "ok" THEN Success("Loaded questions.", 0)
                 ELSE Error("Could not fetch questions.")
    /\ isLoading' = FALSE
    /\ UNCHANGED <<subject, category, document_name, questionUploadFiles, isScrapingDocs,
                   puterAvailable, runs, lastContext>>

(* --------------------------- pipeline segments -------------------------- *)

\* The record of a run that has returned: what it did is kept, the values of
\* its local variables are not.
Ended(run, pc, message) ==
    [IdleRun EXCEPT !.kind = run.kind, !.pc = pc, !.err = message,
                    !.documentPayloads = run.documentPayloads, !.index = run.index,
                    !.output = [run.output EXCEPT !.value = NoResult],
                    !.succeeded = run.succeeded]

\* catch (err) { setStatus(error) } finally { setIsScrapingDocs(false); setIsLoading(false) }
Fail(r, run, message) ==
    /\ runs' = [runs EXCEPT ![r] = Ended(run, "failed", message)]
    /\ status' = ErrorStatus(message, run.kind)
    /\ isLoading' = FALSE
    /\ isScrapingDocs' = IF run.kind = "scraped" THEN FALSE ELSE isScrapingDocs
    /\ UNCHANGED <<subject, category, document_name, questionUploadFiles, puterAvailable,
                   loads, lastContext>>

\* The loop body with pushContext not awaited, for comparison: the context
\* push is issued and the run goes straight on to the taxonomy fetch.
BeginDocumentNoAwait(r, run, i) ==
    LET contextPayload == ContextPayloadOf(run.documentPayloads[i], run.kind)
        newSubject == IF contextPayload.subject # "" /\ run.subjectC = "All"
                      THEN contextPayload.subject ELSE subject
        newCategory == IF contextPayload.category # "" /\ run.categoryC = "All"
                       THEN contextPayload.category ELSE category
    IN  /\ document_name' = IF contextPayload.document_name # ""
                            THEN contextPayload.document_name ELSE document_name
        /\ subject' = newSubject
        /\ category' = newCategory
        /\ QueryEffect((newSubject # subject \/ newCategory # category) /\ newSubject # "All")
        /\ lastContext' = contextPayload
        /\ runs' = [runs EXCEPT ![r] =
                [run EXCEPT !.index = i, !.contextPayload = contextPayload,
                            !.output = NoOutput, !.subtopicRes = "null",
                            !.started = @ \cup {i}, !.pc = "subtopics_wait"]]

\* Top of the loop body for document i, up to the awaited POST /context.
BeginDocument(r, run, i) ==
    LET contextPayload == ContextPayloadOf(run.documentPayloads[i], run.kind)
        newSubject == IF contextPayload.subject # "" /\ run.subjectC = "All"
                      THEN contextPayload.subject ELSE subject
        newCategory == IF contextPayload.category # "" /\ run.categoryC = "All"
                       THEN contextPayload.category ELSE category
    IN  /\ document_name' = IF contextPayload.document_name # ""
                            THEN contextPayload.document_name ELSE document_name
        /\ subject' = newSubject
        /\ category' = newCategory
        /\ QueryEffect((newSubject # subject \/ newCategory # category) /\ newSubject # "All")
        /\ lastContext' = contextPayload
        /\ runs' = [runs EXCEPT ![r] =
                [run EXCEPT !.index = i, !.contextPayload = contextPayload,
                            !.output = NoOutput, !.subtopicRes = "null",
                            !.started = @ \cup {i}, !.pc = "context_wait"]]

\* (subtopicData.subtopics || []) rendered as 'code title' lines: the
\* taxonomy of the subject, or nothing when there was no fetch or the
\* response was an error body.
SubtopicLines(run) == IF run.subtopicRes = "ok" THEN {TaxonomyLine} ELSE {}

\* From the prompt assembly to the awaited oracle call.
CallOracle(r, run) ==
    /\ status' = Idle(IF run.kind = "scraped" THEN "Running scraped extraction"
                      ELSE "Running uploaded extraction")
    /\ runs' = [runs EXCEPT ![r] = [run EXCEPT !.pc = "oracle_wait"]]

\* The click on "Extract uploaded docs" that returns early.
RunUploadedRejected ==
    /\ UNCHANGED uiVars
    /\ ~isLoading
    /\ ~puterAvailable \/ ~questionUploadFiles
    /\ status' = IF ~puterAvailable THEN Error("Puter.js is not available.")
                 ELSE Error("Select at least one question PDF to upload.")
    /\ UNCHANGED <<subject, category, document_name, questionUploadFiles, isLoading,
                   isScrapingDocs, puterAvailable, loads, runs, lastContext>>

\* A start with a generation guard, for comparison: the batch started takes
\* the place of the scraped batch in progress, which is ended.
RunUploadedAiPipelineSuperseding ==
    /\ UNCHANGED uiVars
    /\ ~isLoading
    /\ puterAvailable /\ questionUploadFiles
    /\ runs["uploaded"].pc \in Finished
    /\ isLoading' = TRUE
    /\ status' = Idle("")
    /\ runs' = [runs EXCEPT
            !["uploaded"] =
                [IdleRun EXCEPT !.kind = "uploaded", !.pc = "upload_wait",
                                !.subjectC = subject, !.categoryC = category],
            !["scraped"] =
                IF @.pc \in Finished THEN @ ELSE Ended(@, "failed", "superseded")]
    /\ UNCHANGED <<subject, category, document_name, questionUploadFiles, isScrapingDocs,
                   puterAvailable, loads, lastContext>>

\* runUploadedAiPipeline up to the awaited POST /uploads/question-documents/extract
RunUploadedAiPipeline ==
    /\ UNCHANGED uiVars
    /\ ~isLoading
    /\ puterAvailable /\ questionUploadFiles
    /\ runs["uploaded"].pc \in Finished
    /\ isLoading' = TRUE
    /\ status' = Idle("")
    /\ runs' = [runs EXCEPT !["uploaded"] =
            [IdleRun EXCEPT !.kind = "uploaded", !.pc = "upload_wait",
                            !.subjectC = subject, !.categoryC = category]]
    /\ UNCHANGED <<subject, category, document_name, questionUploadFiles, isScrapingDocs,
                   puterAvailable, loads, lastContext>>

\* The upload request is answered (an error response with an empty body); on
\* success the document loop starts.
UploadResponse(r, outcome, docs) ==
    /\ UNCHANGED uiVars
    /\ runs[r].pc = "upload_wait"
    /\ IF outcome = "ok"
       THEN /\ BeginDocument(r, [runs[r] EXCEPT !.documentPayloads = docs], 1)
            /\ UNCHANGED <<questionUploadFiles, isScrapingDocs, puterAvailable>>
       ELSE Fail(r, runs[r],
                 IF outcome = "neterr" THEN NetworkErrorMessage
                 ELSE "Could not extract uploaded document text.")

\* The click on "Scrape Documents" that returns early (the button is
\* disabled while subject is "All").
RunScrapedRejected ==
    /\ UNCHANGED uiVars
    /\ ~isLoading /\ subject # "All"
    /\ ~puterAvailable
    /\ status' = Error("Puter.js is not available.")
    /\ UNCHANGED <<subject, category, document_name, questionUploadFiles, isLoading,
                   isScrapingDocs, puterAvailable, loads, runs, lastContext>>

\* runScrapedAiPipeline up to the awaited POST /scraper/config of syncContext
RunScrapedAiPipeline ==
    /\ UNCHANGED uiVars
    /\ ~isLoading /\ subject # "All"
    /\ puterAvailable
    /\ runs["scraped"].pc \in Finished
    /\ isLoading' = TRUE
    /\ status' = Idle("")
    /\ runs' = [runs EXCEPT !["scraped"] =
            [IdleRun EXCEPT !.kind = "scraped", !.pc = "config_wait",
                            !.subjectC = subject, !.categoryC = category,
                            !.documentNameC = document_name]]
    /\ UNCHANGED <<subject, category, document_name, questionUploadFiles, isScrapingDocs,
                   puterAvailable, loads, lastContext>>

\* The context payload syncContext({source_type: "scraped"}) builds.
SyncContextPayload(run) ==
    [ document_name |-> run.documentNameC,
      subject |-> IF run.subjectC = "All" THEN DefaultSubject ELSE run.subjectC,
      category |-> normalizeCategory(IF run.categoryC = "All" THEN CANONICAL_CATEGORY
                                     ELSE run.categoryC),
      source_type |-> "scraped",
      client_session_id |-> clientSessionId ]

\* syncContext: POST /scraper/config is answered (its status is not read);
\* POST /context is issued.
ScraperConfigResponse(r, outcome) ==
    /\ UNCHANGED uiVars
    /\ runs[r].pc = "config_wait"
    /\ IF outcome = "neterr"
       THEN Fail(r, runs[r], NetworkErrorMessage)
       ELSE /\ runs' = [runs EXCEPT ![r] =
                    [@ EXCEPT !.pc = "sync_context_wait",
                              !.documentNameC = "",
                              !.configPushes = @ + 1]]
            /\ lastContext' = SyncContextPayload(runs[r])
            /\ UNCHANGED <<subject, category, document_name, questionUploadFiles,
                           isLoading, isScrapingDocs, status, puterAvailable, loads>>

\* syncContext: POST /context is answered (its status is not read); the
\* pipeline sets the overlay and issues GET /data.
SyncContextResponse(r, outcome) ==
    /\ UNCHANGED uiVars
    /\ runs[r].pc = "sync_context_wait"
    /\ IF outcome = "neterr"
       THEN Fail(r, runs[r], NetworkErrorMessage)
       ELSE /\ runs' = [runs EXCEPT ![r] =
                    [@ EXCEPT !.pc = "data_wait"]]
            /\ isScrapingDocs' = TRUE
            /\ status' = Idle("Scraping and downloading documents...")
            /\ UNCHANGED <<subject, category, document_name, questionUploadFiles,
                           isLoading, puterAvailable, loads, lastContext>>

\* GET /data is answered (an error response with an empty body); on success
\* the document loop starts.
DataResponse(r, outcome, docs) ==
    /\ UNCHANGED uiVars
    /\ runs[r].pc = "data_wait"
    /\ IF outcome = "ok"
       THEN /\ BeginDocument(r, [runs[r] EXCEPT !.documentPayloads = docs], 1)
            /\ isScrapingDocs' = FALSE
            /\ UNCHANGED <<questionUploadFiles, puterAvailable>>
       ELSE Fail(r, runs[r],
                 IF outcome = "neterr" THEN NetworkErrorMessage
                 ELSE "Could not load scraped document text.")

\* The step after pushContext with the taxonomy fetch not awaited, for
\* comparison: the fetch is issued and the oracle is called at once.
ContextResponseNoFetchAwait(r, outcome) ==
    /\ UNCHANGED uiVars
    /\ runs[r].pc = "context_wait"
    /\ IF outcome = "neterr"
       THEN Fail(r, runs[r], NetworkErrorMessage)
       ELSE /\ CallOracle(r, [runs[r] EXCEPT !.contextDone = @ \cup {runs[r].index}])
            /\ UNCHANGED <<subject, category, document_name, questionUploadFiles,
                           isLoading, isScrapingDocs, puterAvailable, loads, lastContext>>

\* pushContext is answered (its status is not read); the taxonomy fetch is
\* issued when there is a subject for the prompt, else the oracle is called.
ContextResponse(r, outcome) ==
    /\ UNCHANGED uiVars
    /\ runs[r].pc = "context_wait"
    /\ IF outcome = "neterr"
       THEN Fail(r, runs[r], NetworkErrorMessage)
       ELSE LET run == [runs[r] EXCEPT !.contextDone = @ \cup {runs[r].index}]
            IN  /\ IF subjectForPrompt(run.contextPayload, run.subjectC) # ""
                   THEN /\ runs' = [runs EXCEPT ![r] = [run EXCEPT !.pc = "subtopics_wait"]]
                        /\ UNCHANGED status
                   ELSE CallOracle(r, run)
                /\ UNCHANGED <<subject, category, document_name, questionUploadFiles,
                               isLoading, isScrapingDocs, puterAvailable, loads, lastContext>>

\* GET /subtopics is answered and its body read (the status is not read): an
\* error body that is JSON has no subtopics field and gives no lines; a body
\* that is not JSON raises.
SubtopicsResponse(r, outcome) ==
    /\ UNCHANGED uiVars
    /\ runs[r].pc = "subtopics_wait"
    /\ IF outcome \in {"neterr", "notjson"}
       THEN Fail(r, runs[r],
                 IF outcome = "neterr" THEN NetworkErrorMessage ELSE BodyErrorMessage)
       ELSE /\ CallOracle(r, [runs[r] EXCEPT !.subtopicRes = outcome])
            /\ UNCHANGED <<subject, category, document_name, questionUploadFiles,
                           isLoading, isScrapingDocs, puterAvailable, loads, lastContext>>

\* The oracle call raises.
OracleError(r, message) ==
    /\ UNCHANGED uiVars
    /\ runs[r].pc = "oracle_wait"
    /\ Fail(r, runs[r], message)

\* The oracle step with the submission not awaited, for comparison: POST
\* /ai-result is issued and the loop goes on to the next document at once.
OracleResponseNoAwait(r, output) ==
    /\ UNCHANGED uiVars
    /\ runs[r].pc = "oracle_wait"
    /\ LET run == [runs[r] EXCEPT !.output = output]
       IN  IF parseAiJsonThrows(output)
           THEN Fail(r, run, SyntaxErrorMessage)
           ELSE IF NextIndex(run.index) <= Len(run.documentPayloads)
           THEN /\ BeginDocument(r, run, NextIndex(run.index))
                /\ UNCHANGED <<questionUploadFiles, isScrapingDocs, puterAvailable>>
           ELSE /\ runs' = [runs EXCEPT ![r] = [run EXCEPT !.pc = "result_wait"]]
                /\ UNCHANGED <<subject, category, document_name, questionUploadFiles,
                               isLoading, isScrapingDocs, status, puterAvailable, loads,
                               lastContext>>

\* The oracle answers: the output is parsed and, unless that raises, the
\* parsed object is submitted with the document's context (POST /ai-result).
OracleResponse(r, output) ==
    /\ UNCHANGED uiVars
    /\ runs[r].pc = "oracle_wait"
    /\ LET run == [runs[r] EXCEPT !.output = output]
       IN  IF parseAiJsonThrows(output)
           THEN Fail(r, run, SyntaxErrorMessage)
           ELSE /\ runs' = [runs EXCEPT ![r] =
                        [run EXCEPT !.pc = "result_wait"]]
                /\ UNCHANGED <<subject, category, document_name, questionUploadFiles,
                               isLoading, isScrapingDocs, status, puterAvailable, loads,
                               lastContext>>

\* The body of the POST /ai-result a run is waiting for.
AiResultBody(run) == [result |-> parseAiJson(run.output), context |-> run.contextPayload]

\* After the loop: the success status, then loadQuestions() of the run's own
\* render (which returns at once when that render had no subject) and
\* loadFilters().
Finish(r, run0) ==
    LET run == [run0 EXCEPT !.output = NoOutput, !.contextPayload = NoContext,
                            !.subtopicRes = "null"]
    IN
    /\ questionUploadFiles' = IF run.kind = "uploaded" THEN FALSE ELSE questionUploadFiles
    /\ IF run.subjectC = "All"
       THEN /\ status' = Success("extraction complete", Len(run.documentPayloads))
            /\ runs' = [runs EXCEPT ![r] =
                    [run EXCEPT !.succeeded = TRUE, !.pc = "filters_wait"]]
            /\ UNCHANGED isLoading
       ELSE /\ status' = Idle("")
            /\ isLoading' = TRUE
            /\ runs' = [runs EXCEPT ![r] =
                    [run EXCEPT !.succeeded = TRUE, !.pc = "questions_wait"]]
    /\ UNCHANGED <<subject, category, document_name, isScrapingDocs, puterAvailable,
                   loads, lastContext>>

\* The step after POST /ai-result with the status of the response not read,
\* for comparison: a non-success response moves on like a success.
AiResultResponseIgnoringStatus(r, outcome, detail) ==
    /\ UNCHANGED uiVars
    /\ runs[r].pc = "result_wait"
    /\ outcome = "notok" \/ detail = ""
    /\ LET run == runs[r]
           saved == [run EXCEPT !.persisted = @ \cup {run.index}]
           next == IF outcome = "notok" THEN run ELSE saved
       IN  CASE outcome = "neterr" ->
                    Fail(r, run, NetworkErrorMessage)
             [] outcome = "notjson" ->
                    Fail(r, saved, BodyErrorMessage)
             [] OTHER ->
                    IF NextIndex(run.index) <= Len(run.documentPayloads)
                    THEN /\ BeginDocument(r, next, NextIndex(run.index))
                         /\ UNCHANGED <<questionUploadFiles, isScrapingDocs, puterAvailable>>
                    ELSE Finish(r, next)

\* POST /ai-result is answered: a failure raises, a success moves on to the
\* next document or ends the loop.
AiResultResponse(r, outcome, detail) ==
    /\ UNCHANGED uiVars
    /\ runs[r].pc = "result_wait"
    /\ outcome = "notok" \/ detail = ""
    /\ LET run == runs[r]
           saved == [run EXCEPT !.persisted = @ \cup {run.index}]
       IN  CASE outcome = "neterr" ->
                    Fail(r, run, NetworkErrorMessage)
             [] outcome = "notok" ->
                    Fail(r, run,
                         IF detail = "" THEN "Could not save AI result." ELSE detail)
             [] outcome = "notjson" ->
                    Fail(r, saved, BodyErrorMessage)
             [] OTHER ->
                    IF NextIndex(run.index) <= Len(run.documentPayloads)
                    THEN /\ BeginDocument(r, saved, NextIndex(run.index))
                         /\ UNCHANGED <<questionUploadFiles, isScrapingDocs, puterAvailable>>
                    ELSE Finish(r, saved)

\* GET /questions of the pipeline's own loadQuestions is answered.
PipelineQuestionsResponse(r, outcome) ==
    /\ UNCHANGED uiVars
    /\ runs[r].pc = "questions_wait"
    /\ status' = IF outcome = "ok" THEN Success("Loaded questions.", 0)
                 ELSE Error("Could not fetch questions.")
    /\ isLoading' = FALSE
    /\ runs' = [runs EXCEPT ![r] = [@ EXCEPT !.pc = "filters_wait"]]
    /\ UNCHANGED <<subject, category, document_name, questionUploadFiles, isScrapingDocs,
                   puterAvailable, loads, lastContext>>

\* GET /questions/filters is answered; the pipeline's finally block runs.
FiltersResponse(r, outcome) ==
    /\ UNCHANGED uiVars
    /\ runs[r].pc = "filters_wait"
    /\ status' = IF outcome = "ok" THEN status
                 ELSE Error("Could not load filters from API.")
    /\ isLoading' = FALSE
    /\ isScrapingDocs' = IF runs[r].kind = "scraped" THEN FALSE ELSE isScrapingDocs
    /\ runs' = [runs EXCEPT ![r] = Ended(@, "done", "")]
    /\ UNCHANGED <<subject, category, document_name, questionUploadFiles, puterAvailable,
                   loads, lastContext>>

CallOutcomes == {"ok", "notok", "neterr"}

Next ==
    \/ \E s \in Subjects : SelectSubject(s)
    \/ SelectFiles
    \/ \E outcome \in CallOutcomes : LoadQuestionsDone(outcome)
    \/ RunUploadedRejected
    \/ RunUploadedAiPipeline
    \/ RunScrapedRejected
    \/ RunScrapedAiPipeline
    \/ \E r \in RunIds, outcome \in CallOutcomes, docs \in DocBatches :
            UploadResponse(r, outcome, docs)
    \/ \E r \in RunIds, outcome \in CallOutcomes : ScraperConfigResponse(r, outcome)
    \/ \E r \in RunIds, outcome \in CallOutcomes : SyncContextResponse(r, outcome)
    \/ \E r \in RunIds, outcome \in CallOutcomes, docs \in DocBatches :
            DataResponse(r, outcome, docs)
    \/ \E r \in RunIds, outcome \in CallOutcomes : ContextResponse(r, outcome)
    \/ \E r \in RunIds, outcome \in CallOutcomes \cup {"notjson"} :
            SubtopicsResponse(r, outcome)
    \/ \E r \in RunIds, message \in OracleErrorMessages : OracleError(r, message)
    \/ \E r \in RunIds, output \in OracleOutputs : OracleResponse(r, output)
    \/ \E r \in RunIds, outcome \in CallOutcomes \cup {"notjson"}, detail \in DetailTexts :
            AiResultResponse(r, outcome, detail)
    \/ \E r \in RunIds, outcome \in CallOutcomes : PipelineQuestionsResponse(r, outcome)
    \/ \E r \in RunIds, outcome \in {"ok", "neterr"} : FiltersResponse(r, outcome)

Spec == Init /\ [][Next]_vars

(***************************************************************************)
(* SpecValidation: one uploaded run at a time, every call answered with    *)
(* success, the oracle answering with any of the result objects.  It shows *)
(* what reaches POST /ai-result for each shape of oracle result.           *)
(***************************************************************************)
NextValidation ==
    \/ SelectFiles
    \/ RunUploadedAiPipeline
    \/ \E docs \in DocBatches : UploadResponse("uploaded", "ok", docs)
    \/ \E outcome \in {"ok", "notok"} : LoadQuestionsDone(outcome)
    \/ ContextResponse("uploaded", "ok")
    \/ SubtopicsResponse("uploaded", "ok")
    \/ \E output \in ValidationOutputs : OracleResponse("uploaded", output)
    \/ AiResultResponse("uploaded", "ok", "")
    \/ PipelineQuestionsResponse("uploaded", "ok")
    \/ FiltersResponse("uploaded", "ok")

SpecValidation == Init /\ [][NextValidation]_vars

(***************************************************************************)
(* SpecBatches: a scraped batch, and an uploaded batch that is started     *)
(* while the first document of the scraped batch waits for the answer to   *)
(* its context push.  The scraped pipeline is not started again while the  *)
(* uploaded batch is in progress, so in every state in which the uploaded  *)
(* batch is in progress the scraped batch is the earlier of the two and    *)
(* had submitted no result when the uploaded batch began.                  *)
(***************************************************************************)
NextBatches ==
    \/ \E s \in Subjects : SelectSubject(s)
    \/ SelectFiles
    \/ \E outcome \in CallOutcomes : LoadQuestionsDone(outcome)
    \/ RunUploadedRejected
    \/ /\ runs["scraped"].pc = "context_wait" /\ runs["scraped"].index = 1
       /\ RunUploadedAiPipeline
    \/ RunScrapedRejected
    \/ /\ runs["uploaded"].pc \in Finished
       /\ RunScrapedAiPipeline
    \/ \E r \in RunIds, outcome \in CallOutcomes, docs \in DocBatches :
            UploadResponse(r, outcome, docs)
    \/ \E r \in RunIds, outcome \in CallOutcomes : ScraperConfigResponse(r, outcome)
    \/ \E r \in RunIds, outcome \in CallOutcomes : SyncContextResponse(r, outcome)
    \/ \E r \in RunIds, outcome \in CallOutcomes, docs \in DocBatches :
            DataResponse(r, outcome, docs)
    \/ \E r \in RunIds, outcome \in CallOutcomes : ContextResponse(r, outcome)
    \/ \E r \in RunIds, outcome \in CallOutcomes \cup {"notjson"} :
            SubtopicsResponse(r, outcome)
    \/ \E r \in RunIds, message \in OracleErrorMessages : OracleError(r, message)
    \/ \E r \in RunIds, output \in OracleOutputs : OracleResponse(r, output)
    \/ \E r \in RunIds, outcome \in CallOutcomes \cup {"notjson"}, detail \in DetailTexts :
            AiResultResponse(r, outcome, detail)
    \/ \E r \in RunIds, outcome \in CallOutcomes : PipelineQuestionsResponse(r, outcome)
    \/ \E r \in RunIds, outcome \in {"ok", "neterr"} : FiltersResponse(r, outcome)

SpecBatches == Init /\ [][NextBatches]_vars

(* ------------------------------- claims --------------------------------- *)

Range(seq) == { seq[k] : k \in DOMAIN seq }

\* C1: in a batch processed in array order the context push for document
\* i+1 is issued only after the POST /ai-result of document i has completed:
\* the documents whose push was issued are 1..index, and all before the
\* current one are persisted.
C1_SequentialDocuments ==
    \A r \in RunIds :
        runs[r].pc \in InDocument =>
            /\ runs[r].started = 1..runs[r].index
            /\ \A i \in runs[r].started : \A j \in 1..(i - 1) : j \in runs[r].persisted

C1_Witness ==
    \E r \in RunIds :
        /\ runs[r].pc = "context_wait" /\ runs[r].index = 2
        /\ runs[r].persisted = {1}

\* Two contexts name the same document.
SameDocument(a, b) ==
    /\ a.document_name = b.document_name
    /\ a.subject = b.subject
    /\ a.source_type = b.source_type

\* C2: when a document's result is submitted (the step that issues POST
\* /ai-result), that document's context push has been answered and the
\* context most recently pushed to the backend is that document's context.
C2_ResultAttributedToOwnContext ==
    [][ \A r \in RunIds :
            (runs[r].pc = "oracle_wait" /\ runs'[r].pc = "result_wait") =>
                /\ runs[r].index \in runs[r].contextDone
                /\ SameDocument(lastContext', runs'[r].contextPayload) ]_vars

\* C3: at most one document is between the start of its context push and
\* the completion of its POST /ai-result.
C3_AtMostOneDocumentInFlight ==
    Cardinality({ r \in RunIds : runs[r].pc \in InDocument }) <= 1

\* C4 as claimed: when a document's oracle call is issued, a scraper
\* configuration push and the document's context push have completed.
C4_ConfigAndContextBeforeOracle ==
    \A r \in RunIds :
        runs[r].pc = "oracle_wait" =>
            /\ runs[r].configPushes >= 1
            /\ runs[r].index \in runs[r].contextDone

\* C4 as amended: when a document's oracle call is issued, that document's
\* context push has been answered; the scraped pipeline has had exactly one
\* scraper configuration push answered (once per run, not per document) and
\* the uploaded pipeline none.
C4_ContextBeforeOracle ==
    \A r \in RunIds :
        runs[r].pc = "oracle_wait" =>
            /\ runs[r].index \in runs[r].contextDone
            /\ runs[r].configPushes = IF runs[r].kind = "scraped" THEN 1 ELSE 0

C4_Witness ==
    /\ runs["scraped"].pc = "oracle_wait" /\ runs["scraped"].index = 2
    /\ runs["uploaded"].pc = "oracle_wait"

\* The results in flight to POST /ai-result.
SubmittedRuns == { r \in RunIds : runs[r].pc = "result_wait" }

\* The question text ends with a bracketed pure-integer token.
PureInteger(token) == token \in {"10"}
EndsWithMark(question) ==
    /\ Len(question) >= 3
    /\ question[Len(question) - 2] = "["
    /\ PureInteger(question[Len(question) - 1])
    /\ question[Len(question)] = "]"
HasBracket(question) == \E t \in Range(question) : t \in {"[", "]"}

\* C5: every exam item submitted to POST /ai-result ends with a bracketed
\* pure-integer token.
C5_SubmittedExamItemsEndWithMark ==
    \A r \in SubmittedRuns :
        \A item \in Range(AiResultBody(runs[r]).result.exam) : EndsWithMark(item.question)

\* C6: no understanding item submitted to POST /ai-result contains a
\* bracket.
C6_SubmittedUnderstandingHasNoBracket ==
    \A r \in SubmittedRuns :
        \A item \in Range(AiResultBody(runs[r]).result.understanding) :
            ~HasBracket(item.question)

\* C7: the chapter of every submitted item is one of the taxonomy lines of
\* that document's prompt.
C7_SubmittedChaptersInTaxonomy ==
    \A r \in SubmittedRuns :
        LET result == AiResultBody(runs[r]).result
        IN  \A item \in Range(result.exam) \cup Range(result.understanding) :
                item.chapter \in SubtopicLines(runs[r])

C9_NoFailedCallIgnored ==
    \A r \in RunIds :
        runs[r].pc \in {"oracle_wait", "result_wait"} => runs[r].subtopicRes # "notok"

\* C10: an oracle output that is not JSON once the fence markers are
\* stripped is a hard failure: the run fails with an error status in the
\* step that receives it and no POST /ai-result is issued for it.
C10_UnparseableOutputAborts ==
    [][ \A r \in RunIds :
            ( /\ runs[r].pc = "oracle_wait"
              /\ runs'[r].output # NoOutput
              /\ ~JsonParses(Trim(StripFences(runs'[r].output.toks))) ) =>
                /\ runs'[r].pc = "failed"
                /\ status'.type = "error"
                /\ runs'[r].index = runs[r].index ]_vars

C10_Witness ==
    \E r \in RunIds :
        /\ runs[r].pc = "failed"
        /\ runs[r].output.toks = <<"FENCE_JSON", " ", "x", "FENCE">>
        /\ status = Error(SyntaxErrorMessage)

\* C11: an extraction started with no subject selected is rejected before any
\* work: no pipeline run is in progress (no request or oracle call issued or
\* awaited) that was started from a render whose subject was "All".
C11_NoExtractionWithoutSubject ==
    \A r \in RunIds : runs[r].pc \notin Finished => runs[r].subjectC # "All"

(***************************************************************************)
(* The taxonomy codes.  A string is the sequence of its characters, so     *)
(* that split, parseInt and the string comparison work on the text as the  *)
(* code does.                                                              *)
(***************************************************************************)
MaxCodes == 13      \* codes of the pool the compared codes are drawn from

Digits == <<"0", "1", "2", "3", "4", "5", "6", "7", "8", "9">>
IsDigit(c) == \E d \in 1..10 : Digits[d] = c
DigitValue(c) == (CHOOSE d \in 1..10 : Digits[d] = c) - 1

\* The codes compared, in the order the pool is extended.
CodePool ==
    << <<"1">>, <<"1", ".", "2">>, <<"1", ".", "1", "0">>, <<"2">>,
       <<"1", ".", "9">>, <<"1", ".", "x">>, <<"0", "1">>, <<"1", ".">>,
       <<"1", ".", "2", ".", "1">>, <<"1", "0">>, <<"x">>, <<"1", ".", "-", "2">>,
       <<"1", ".", "9", "x">> >>
Codes == { CodePool[k] : k \in 1..(IF MaxCodes < Len(CodePool) THEN MaxCodes ELSE Len(CodePool)) }

\* String.prototype.split("."): the parts between the dots.
RECURSIVE Split(_)
Split(str) ==
    IF \A k \in DOMAIN str : str[k] # "."
    THEN <<str>>
    ELSE LET k == CHOOSE k \in DOMAIN str : str[k] = "." /\ \A j \in 1..(k - 1) : str[j] # "."
         IN  <<SubSeq(str, 1, k - 1)>> \o Split(SubSeq(str, k + 1, Len(str)))

RECURSIVE ParseDigits(_, _)
ParseDigits(chars, acc) ==
    IF chars = <<>> \/ ~IsDigit(Head(chars)) THEN acc
    ELSE ParseDigits(Tail(chars), acc * 10 + DigitValue(Head(chars)))

\* Number.parseInt(part, 10): leading white space is skipped, then an
\* optional minus sign and the longest run of digits are read; NaN when no
\* digit follows.
parseInt(part) ==
    LET t == TrimLeft(part)
        negative == t # <<>> /\ Head(t) = "-"
        d == IF negative THEN Tail(t) ELSE t
    IN  IF d = <<>> \/ ~IsDigit(Head(d)) THEN [isNaN |-> TRUE, value |-> 0]
        ELSE [isNaN |-> FALSE,
              value |-> IF negative THEN 0 - ParseDigits(d, 0) ELSE ParseDigits(d, 0)]

\* The collation order of the characters that occur: white space, then
\* punctuation, then digits, then letters.
CharRank(c) ==
    CASE c = " " -> 0
      [] c = "-" -> 1
      [] c = "." -> 2
      [] IsDigit(c) -> 3 + DigitValue(c)
      [] OTHER -> 13

\* String.prototype.localeCompare on these characters: -1, 0 or 1.
RECURSIVE localeCompare(_, _)
localeCompare(a, b) ==
    IF a = <<>> /\ b = <<>> THEN 0
    ELSE IF a = <<>> THEN 0 - 1
    ELSE IF b = <<>> THEN 1
    ELSE IF CharRank(Head(a)) < CharRank(Head(b)) THEN 0 - 1
    ELSE IF CharRank(Head(a)) > CharRank(Head(b)) THEN 1
    ELSE localeCompare(Tail(a), Tail(b))

\* Number.isNaN(parts[i]) ? -1 : (parts[i] ?? -1)
PartValue(parts, i) ==
    IF i > Len(parts) THEN 0 - 1
    ELSE IF parts[i].isNaN THEN 0 - 1
    ELSE parts[i].value

\* Comparison by the string alone, for comparison with compareCodes.
compareCodesAsStrings(a, b) == localeCompare(a, b)

\* A comparator that reads a missing segment of its first argument as 99
\* and one of its second argument as -1, for comparison with compareCodes.
compareCodesOneSided(a, b) ==
    LET aSplit == Split(a)
        bSplit == Split(b)
        aParts == [i \in DOMAIN aSplit |-> parseInt(aSplit[i])]
        bParts == [i \in DOMAIN bSplit |-> parseInt(bSplit[i])]
        maxLen == IF Len(aParts) > Len(bParts) THEN Len(aParts) ELSE Len(bParts)
        aVal(i) == IF i > Len(aParts) THEN 99 ELSE PartValue(aParts, i)
        differing == { i \in 1..maxLen : aVal(i) # PartValue(bParts, i) }
    IN  IF differing # {}
        THEN LET i == CHOOSE i \in differing : \A j \in differing : i <= j
             IN  aVal(i) - PartValue(bParts, i)
        ELSE localeCompare(a, b)

\* compareCodes
compareCodes(a, b) ==
    LET aSplit == Split(a)
        bSplit == Split(b)
        aParts == [i \in DOMAIN aSplit |-> parseInt(aSplit[i])]
        bParts == [i \in DOMAIN bSplit |-> parseInt(bSplit[i])]
        maxLen == IF Len(aParts) > Len(bParts) THEN Len(aParts) ELSE Len(bParts)
        differing == { i \in 1..maxLen : PartValue(aParts, i) # PartValue(bParts, i) }
    IN  IF differing # {}
        THEN LET i == CHOOSE i \in differing : \A j \in differing : i <= j
             IN  PartValue(aParts, i) - PartValue(bParts, i)
        ELSE localeCompare(a, b)

(***************************************************************************)
(* The taxonomy.  An item is [code, title]; a title is a sequence of text  *)
(* pieces, empty when the item has none.                                   *)
(***************************************************************************)
MaxItems == 4       \* items of one taxonomy list

TaxonomyItem(code, title) == [code |-> code, title |-> title]

\* The items the lists are made of: the four of a well-formed taxonomy, a
\* second entry for code 1.1, a code equal to 1.1 in value but not as a
\* string, and an entry whose title is blank.
ItemPool ==
    << TaxonomyItem(<<"1">>, <<"Theme One">>),
       TaxonomyItem(<<"1", ".", "1">>, <<"Sub A">>),
       TaxonomyItem(<<"1", ".", "2">>, <<"Sub B">>),
       TaxonomyItem(<<"3", ".", "1">>, <<"Orphan">>),
       TaxonomyItem(<<"1", ".", "1">>, <<"Sub A revised">>),
       TaxonomyItem(<<"1", ".", "1", "0">>, <<"Sub J">>),
       TaxonomyItem(<<"2", ".", "1">>, <<" ">>) >>

\* The lists a response or an oracle result can hold: up to MaxItems
\* different items of the pool, in any order.
TaxonomyLists ==
    UNION { { [k \in 1..n |-> ItemPool[f[k]]] :
                f \in { g \in [1..n -> DOMAIN ItemPool] :
                          \A i, j \in 1..n : i # j => g[i] # g[j] } } :
            n \in 0..MaxItems }

\* Array.prototype.sort((a, b) => compareCodes(a.code, b.code)): a stable
\* sort, each item placed after the items that do not sort after it.
RECURSIVE SortByCode(_)
SortByCode(items) ==
    IF items = <<>> THEN <<>>
    ELSE LET sorted == SortByCode(SubSeq(items, 1, Len(items) - 1))
             x == items[Len(items)]
             k == Cardinality({ i \in DOMAIN sorted : compareCodes(sorted[i].code, x.code) <= 0 })
         IN  SubSeq(sorted, 1, k) \o <<x>> \o SubSeq(sorted, k + 1, Len(sorted))

\* .filter(code && title).map(trim both): the first two steps of themeGroups
\* and of the import.
TrimmedItems(items) ==
    LET present == SelectSeq(items, LAMBDA item : item.code # <<>> /\ item.title # <<>>)
    IN  [k \in DOMAIN present |->
            TaxonomyItem(Trim(present[k].code), Trim(present[k].title))]

\* The subtopics of the bulk payload extractSubtopicsFromSyllabus builds from
\* resultObj.subtopics.
cleanedSubtopics(items) ==
    SortByCode(SelectSeq(TrimmedItems(items),
                         LAMBDA item : item.code # <<>> /\ item.title # <<>>))

isMainTheme(item) == \A k \in DOMAIN item.code : item.code[k] # "."
mainCode(item) == IF isMainTheme(item) THEN item.code ELSE Split(item.code)[1]

\* The keys of the groups map, in insertion order.
RECURSIVE MainCodes(_)
MainCodes(items) ==
    IF items = <<>> THEN <<>>
    ELSE LET before == MainCodes(SubSeq(items, 1, Len(items) - 1))
             m == mainCode(items[Len(items)])
         IN  IF \E k \in DOMAIN before : before[k] = m THEN before ELSE Append(before, m)

\* The group of one main code: the title of the last main-theme item with
\* that code, or the fallback title; the subthemes sorted.
ThemeGroup(items, m) ==
    LET mains == SelectSeq(items, LAMBDA item : isMainTheme(item) /\ item.code = m)
        subthemes == SelectSeq(items, LAMBDA item : ~isMainTheme(item) /\ mainCode(item) = m)
        sortedSubthemes == SortByCode(subthemes)
        fallbackTitle == IF sortedSubthemes # <<>> /\ sortedSubthemes[1].title # <<>>
                         THEN <<"Theme", " ">> \o m \o <<":", " ">> \o sortedSubthemes[1].title
                         ELSE <<"Theme", " ">> \o m
        title == IF mains # <<>> THEN mains[Len(mains)].title ELSE <<>>
    IN  [ code |-> m,
          title |-> IF title # <<>> THEN title ELSE fallbackTitle,
          subthemes |-> sortedSubthemes ]

\* The items the forEach of themeGroups does not skip.
GroupedItems(subs) ==
    SelectSeq(TrimmedItems(subs), LAMBDA item : item.code # <<>> /\ item.title # <<>>)

\* A grouping that keeps only the groups with a main-theme node, for
\* comparison with themeGroups.
themeGroupsOfMainThemes(subs) ==
    LET items == GroupedItems(subs)
        codes == SelectSeq(MainCodes(items),
                           LAMBDA m : \E k \in DOMAIN items :
                                          isMainTheme(items[k]) /\ items[k].code = m)
    IN  SortByCode([k \in DOMAIN codes |-> ThemeGroup(items, codes[k])])

\* A grouping that leaves the groups in the order of the map, for comparison
\* with themeGroups.
themeGroupsInMapOrder(subs) ==
    LET items == GroupedItems(subs)
        codes == MainCodes(items)
    IN  [k \in DOMAIN codes |-> ThemeGroup(items, codes[k])]

\* themeGroups
themeGroups(subs) ==
    LET items == GroupedItems(subs)
        codes == MainCodes(items)
    IN  SortByCode([k \in DOMAIN codes |-> ThemeGroup(items, codes[k])])

(***************************************************************************)
(* The client session identifier and the requests.  The session storage is *)
(* the value it holds under CLIENT_SESSION_STORAGE_KEY, the empty string   *)
(* when it holds none (getItem returns null, which is falsy as the empty   *)
(* string is).                                                             *)
(***************************************************************************)
MaxSessionCalls == 3   \* calls of getOrCreateClientSessionId against one storage

\* What crypto.randomUUID() or the Date.now()-Math.random() fallback can
\* give: never the empty string.
GeneratedIds == {"uuid-1", "uuid-2", "1700000000000-9f3a"}
StoredIds == {"", "uuid-0"}
SessionIds == {clientSessionId, "server-session"} \cup GeneratedIds \cup (StoredIds \ {""})

\* An identifier regenerated at every call, for comparison.
getOrCreateClientSessionIdAlwaysNew(hasWindow, stored, generated) ==
    [id |-> generated, stored |-> generated]

\* getOrCreateClientSessionId: the identifier returned and the storage left.
getOrCreateClientSessionId(hasWindow, stored, generated) ==
    IF ~hasWindow THEN [id |-> "server-session", stored |-> stored]
    ELSE IF stored # "" THEN [id |-> stored, stored |-> stored]
    ELSE [id |-> generated, stored |-> generated]

Header(name, value) == [name |-> name, value |-> value]
JsonHeaders == {Header("Content-Type", "application/json")}
RequestSite(line, method, path, headers) ==
    [line |-> line, method |-> method, path |-> path, headers |-> headers]

\* Every call of apiFetch in the application: the line, the method, the
\* path and the headers option passed.
RequestSites ==
    { RequestSite(233, "GET", "/subjects", {}),
      RequestSite(252, "GET", "/subtopics", {}),
      RequestSite(266, "GET", "/collections", {}),
      RequestSite(289, "GET", "/questions/filters", {}),
      RequestSite(432, "POST", "/collections", JsonHeaders),
      RequestSite(477, "POST", "/scraper/config", JsonHeaders),
      RequestSite(494, "POST", "/context", JsonHeaders),
      RequestSite(523, "GET", "/questions", {}),
      RequestSite(559, "POST", "/syllabus/extract", {}),
      RequestSite(597, "POST", "/subtopics/bulk", JsonHeaders),
      RequestSite(619, "POST", "/context", JsonHeaders),
      RequestSite(649, "GET", "/subtopics", {}),
      RequestSite(673, "POST", "/ai-result", JsonHeaders),
      RequestSite(703, "GET", "/data", {}),
      RequestSite(751, "POST", "/uploads/question-documents/extract", {}),
      RequestSite(790, "POST", "/collections/documents", JsonHeaders) }

\* A wrapper that passes the options on as they are, for comparison.
apiFetchPlain(site, sessionId) ==
    [method |-> site.method, path |-> site.path, headers |-> site.headers]

\* apiFetch: the request handed to fetch.
apiFetch(site, sessionId) ==
    LET headers == site.headers
    IN  [ method |-> site.method, path |-> site.path,
          headers |-> IF sessionId # "" /\ \A h \in headers : h.name # "X-Client-Session"
                      THEN headers \cup {Header("X-Client-Session", sessionId)}
                      ELSE headers ]

\* ---- the selection of codes ----

\* new Set(array) and Array.from(set): the first occurrence of each element,
\* in order.
RECURSIVE Dedupe(_)
Dedupe(seq) ==
    IF seq = <<>> THEN <<>>
    ELSE LET before == Dedupe(SubSeq(seq, 1, Len(seq) - 1))
             x == seq[Len(seq)]
         IN  IF \E k \in DOMAIN before : before[k] = x THEN before ELSE Append(before, x)

\* codes.sort(compareCodes)
SortCodes(codes) ==
    LET sorted == SortByCode([k \in DOMAIN codes |-> [code |-> codes[k]]])
    IN  [k \in DOMAIN sorted |-> sorted[k].code]

\* A toggle that handles the first of the codes only, for comparison with
\* toggleCodes.
toggleCodesFirstOnly(previous, codes, shouldSelect) ==
    LET first == SubSeq(codes, 1, 1)
    IN  SortCodes(IF shouldSelect THEN Dedupe(previous \o first)
                  ELSE SelectSeq(Dedupe(previous),
                                 LAMBDA c : \A k \in DOMAIN first : first[k] # c))

\* A toggle that leaves the codes in the order of the set, for comparison
\* with toggleCodes.
toggleCodesUnsorted(previous, codes, shouldSelect) ==
    IF shouldSelect THEN Dedupe(previous \o codes)
    ELSE SelectSeq(Dedupe(previous), LAMBDA c : \A k \in DOMAIN codes : codes[k] # c)

\* The updater toggleCodes passes to setSelectedSubtopicCodes.
toggleCodes(previous, codes, shouldSelect) ==
    SortCodes(IF shouldSelect THEN Dedupe(previous \o codes)
              ELSE SelectSeq(Dedupe(previous),
                             LAMBDA c : \A k \in DOMAIN codes : codes[k] # c))

\* [group.code, ...group.subthemes.map((item) => item.code)]
themeCodes(group) ==
    <<group.code>> \o [k \in DOMAIN group.subthemes |-> group.subthemes[k].code]

\* The taxonomy whose checkboxes are toggled: a theme with three subthemes
\* and a subtheme without a theme.
ToggleTaxonomy == <<ItemPool[1], ItemPool[2], ItemPool[3], ItemPool[4], ItemPool[6]>>

\* The code lists the checkboxes pass to toggleCodes: the codes of a theme
\* group, or the code of one subtheme.
ToggleCodeLists ==
    { themeCodes(group) : group \in { themeGroups(ToggleTaxonomy)[g] :
                                        g \in DOMAIN themeGroups(ToggleTaxonomy) } }
      \cup { <<ToggleTaxonomy[k].code>> : k \in 2..Len(ToggleTaxonomy) }

\* ---- the page count of the scraper ----
DEFAULT_SCRAPER_PAGES == 2
MAX_SCRAPER_PAGES == 20

\* String(n) of a page count held in the state: its decimal digits.
RECURSIVE NumberToString(_)
NumberToString(n) ==
    IF n < 10 THEN <<Digits[n + 1]>>
    ELSE NumberToString(n \div 10) \o <<Digits[(n % 10) + 1]>>

\* sanitizePageCount
sanitizePageCount(value) ==
    LET parsed == parseInt(value)
    IN  IF parsed.isNaN \/ parsed.value < 1 THEN 1
        ELSE IF parsed.value < MAX_SCRAPER_PAGES THEN parsed.value ELSE MAX_SCRAPER_PAGES

\* What the page input can hold, each text with the number it is the
\* notation of, if any (for a fraction, its integer part).
PageCountInput(text, numeric, integer, value) ==
    [text |-> text, numeric |-> numeric, integer |-> integer, value |-> value]
PageCountInputs ==
    { PageCountInput(<<>>, FALSE, FALSE, 0),
      PageCountInput(<<"x">>, FALSE, FALSE, 0),
      PageCountInput(<<"7", "x">>, FALSE, FALSE, 0),
      PageCountInput(<<"-", "3">>, TRUE, TRUE, 0 - 3),
      PageCountInput(<<"0">>, TRUE, TRUE, 0),
      PageCountInput(<<"1">>, TRUE, TRUE, 1),
      PageCountInput(NumberToString(DEFAULT_SCRAPER_PAGES), TRUE, TRUE, DEFAULT_SCRAPER_PAGES),
      PageCountInput(<<"2", ".", "7">>, TRUE, FALSE, 2),
      PageCountInput(<<"2", "0">>, TRUE, TRUE, 20),
      PageCountInput(<<"2", "1">>, TRUE, TRUE, 21),
      PageCountInput(<<"1", "0", "0">>, TRUE, TRUE, 100),
      PageCountInput(<<"1", "e", "2">>, TRUE, TRUE, 100) }

(***************************************************************************)
(* SpecFunctions: calls of the module-level functions.  Init draws the     *)
(* arguments of one call, the action of the function computes what it      *)
(* returns.                                                                *)
(***************************************************************************)
CategoryValues ==
    {"", "A-Level", "GCE \"A\" Levels", CANONICAL_CATEGORY, "O-Level", "a-level"}

\* The comparisons a sort makes among three codes.
CompareCodesCalls == { [fn |-> "compareCodes", a |-> a, b |-> b, c |-> c] : a, b, c \in Codes }
NormalizeCategoryCalls == { [fn |-> "normalizeCategory", value |-> v] : v \in CategoryValues }
ThemeGroupsCalls == { [fn |-> "themeGroups", subtopics |-> l] : l \in TaxonomyLists }
CleanedSubtopicsCalls == { [fn |-> "cleanedSubtopics", subtopics |-> l] : l \in TaxonomyLists }
SessionIdCalls ==
    { [fn |-> "getOrCreateClientSessionId", hasWindow |-> w, stored |-> st] :
        w \in BOOLEAN, st \in StoredIds }
ApiFetchCalls ==
    { [fn |-> "apiFetch", site |-> site, sessionId |-> id] :
        site \in RequestSites, id \in SessionIds }
SanitizePageCountCalls ==
    { [fn |-> "sanitizePageCount", input |-> input] : input \in PageCountInputs }
FunctionCalls ==
    CompareCodesCalls \cup NormalizeCategoryCalls \cup ThemeGroupsCalls
        \cup CleanedSubtopicsCalls \cup SessionIdCalls \cup ApiFetchCalls
        \cup SanitizePageCountCalls \cup {[fn |-> "toggleCodes"]}

CallCompareCodes ==
    /\ callArgs.fn = "compareCodes" /\ callResult = NoCall
    /\ callResult' = [fn |-> "compareCodes",
                      ab |-> compareCodes(callArgs.a, callArgs.b),
                      ba |-> compareCodes(callArgs.b, callArgs.a),
                      bc |-> compareCodes(callArgs.b, callArgs.c),
                      ac |-> compareCodes(callArgs.a, callArgs.c)]
    /\ UNCHANGED <<pipelineVars, viewVars, subtopics, selectedSubtopicCodes, callArgs, syllabus, collectionVars>>

\* normalizeCategory applied once, and applied to its own result.
CallNormalizeCategory ==
    /\ callArgs.fn = "normalizeCategory" /\ callResult = NoCall
    /\ callResult' = [fn |-> "normalizeCategory",
                      once |-> normalizeCategory(callArgs.value),
                      twice |-> normalizeCategory(normalizeCategory(callArgs.value))]
    /\ UNCHANGED <<pipelineVars, viewVars, subtopics, selectedSubtopicCodes, callArgs, syllabus, collectionVars>>

\* The useMemo of themeGroups is evaluated for a subtopics list.
CallThemeGroups ==
    /\ callArgs.fn = "themeGroups" /\ callResult = NoCall
    /\ callResult' = [fn |-> "themeGroups", groups |-> themeGroups(callArgs.subtopics)]
    /\ UNCHANGED <<pipelineVars, viewVars, subtopics, selectedSubtopicCodes, callArgs, syllabus, collectionVars>>

\* extractSubtopicsFromSyllabus builds the subtopics of the bulk payload.
CallCleanedSubtopics ==
    /\ callArgs.fn = "cleanedSubtopics" /\ callResult = NoCall
    /\ callResult' = [fn |-> "cleanedSubtopics",
                      subtopics |-> cleanedSubtopics(callArgs.subtopics)]
    /\ UNCHANGED <<pipelineVars, viewVars, subtopics, selectedSubtopicCodes, callArgs, syllabus, collectionVars>>

\* The application is loaded in a tab (useState runs the initializer
\* getOrCreateClientSessionId once per load) with the storage the calls
\* before it left.
CallGetOrCreateClientSessionId(generated) ==
    /\ callArgs.fn = "getOrCreateClientSessionId"
    /\ callResult # NoCall => Len(callResult.returned) < MaxSessionCalls
    /\ LET stored == IF callResult = NoCall THEN callArgs.stored ELSE callResult.stored
           returned == IF callResult = NoCall THEN <<>> ELSE callResult.returned
           call == getOrCreateClientSessionId(callArgs.hasWindow, stored, generated)
       IN  callResult' = [fn |-> "getOrCreateClientSessionId",
                          stored |-> call.stored,
                          returned |-> Append(returned, call.id)]
    /\ UNCHANGED <<pipelineVars, viewVars, subtopics, selectedSubtopicCodes, callArgs, syllabus, collectionVars>>

\* A request is issued at one of the call sites.
CallApiFetch ==
    /\ callArgs.fn = "apiFetch" /\ callResult = NoCall
    /\ callResult' = [fn |-> "apiFetch",
                      request |-> apiFetch(callArgs.site, callArgs.sessionId)]
    /\ UNCHANGED <<pipelineVars, viewVars, subtopics, selectedSubtopicCodes, callArgs, syllabus, collectionVars>>

\* The page input changes, setScraperPages(sanitizePageCount(value)), and
\* syncContext sends pages: sanitizePageCount(scraperPages).
CallSanitizePageCount ==
    /\ callArgs.fn = "sanitizePageCount" /\ callResult = NoCall
    /\ LET scraperPages == sanitizePageCount(callArgs.input.text)
       IN  callResult' = [fn |-> "sanitizePageCount",
                          scraperPages |-> scraperPages,
                          pages |-> sanitizePageCount(NumberToString(scraperPages))]
    /\ UNCHANGED <<pipelineVars, viewVars, subtopics, selectedSubtopicCodes, callArgs, syllabus, collectionVars>>

\* A checkbox calls toggleCodes on the selection the calls before it left,
\* starting from the empty selection.
CallToggleCodes(codes, shouldSelect) ==
    /\ callArgs.fn = "toggleCodes"
    /\ LET previous == IF callResult = NoCall THEN <<>> ELSE callResult.selected
       IN  callResult' = [fn |-> "toggleCodes",
                          previous |-> previous,
                          codes |-> codes,
                          shouldSelect |-> shouldSelect,
                          selected |-> toggleCodes(previous, codes, shouldSelect)]
    /\ UNCHANGED <<pipelineVars, viewVars, subtopics, selectedSubtopicCodes, callArgs, syllabus,
                   collectionVars>>

InitFunctions ==
    /\ InitPipeline
    /\ InitView
    /\ InitCollections
    /\ syllabus = NoSyllabusRun
    /\ subtopics = <<>>
    /\ selectedSubtopicCodes = <<>>
    /\ callArgs \in FunctionCalls
    /\ callResult = NoCall

NextFunctions ==
    \/ CallCompareCodes
    \/ CallNormalizeCategory
    \/ CallThemeGroups
    \/ CallCleanedSubtopics
    \/ \E generated \in GeneratedIds : CallGetOrCreateClientSessionId(generated)
    \/ CallApiFetch
    \/ CallSanitizePageCount
    \/ \E codes \in ToggleCodeLists, shouldSelect \in BOOLEAN :
          CallToggleCodes(codes, shouldSelect)

SpecFunctions == InitFunctions /\ [][NextFunctions]_vars

\* ---- claims on compareCodes and normalizeCategory ----

Sign(n) == IF n < 0 THEN 0 - 1 ELSE IF n > 0 THEN 1 ELSE 0

\* The integer value of segment i of a code; -1 stands for a segment that is
\* missing or not numeric.
SegmentValue(code, i) ==
    LET parts == Split(code)
    IN  IF i > Len(parts) THEN 0 - 1
        ELSE IF parseInt(parts[i]).isNaN THEN 0 - 1
        ELSE parseInt(parts[i]).value
Depth(code) == Len(Split(code))

\* C12: compareCodes orders two codes by the integer value of their
\* segments, left to right: the first segment whose values differ decides
\* the sign; the string comparison decides only when all segment values are
\* equal; compare(1.2, 1.10) < 0, compare(2, 1.9) > 0, compare(A, A) = 0.
C12_CompareCodesBySegmentValue ==
    callResult.fn = "compareCodes" =>
        LET a == callArgs.a
            b == callArgs.b
            r == callResult.ab
            depth == IF Depth(a) > Depth(b) THEN Depth(a) ELSE Depth(b)
        IN  /\ (a = <<"1", ".", "2">> /\ b = <<"1", ".", "1", "0">>) => r < 0
            /\ (a = <<"2">> /\ b = <<"1", ".", "9">>) => r > 0
            /\ a = b => r = 0
            /\ \A i \in 1..depth :
                  ( /\ SegmentValue(a, i) # SegmentValue(b, i)
                    /\ \A j \in 1..(i - 1) : SegmentValue(a, j) = SegmentValue(b, j) )
                  => Sign(r) = Sign(SegmentValue(a, i) - SegmentValue(b, i))
            /\ (\A i \in 1..depth : SegmentValue(a, i) = SegmentValue(b, i))
                  => Sign(r) = Sign(localeCompare(a, b))

C12_Witness ==
    /\ callResult.fn = "compareCodes"
    /\ callArgs.a = <<"1", ".", "2">> /\ callArgs.b = <<"1", ".", "1", "0">>
    /\ callResult.ab < 0

\* C13: compareCodes is antisymmetric and transitive: the sign of
\* compare(A, B) is the opposite of the sign of compare(B, A), and A before B
\* with B before C implies A before C.
C13_CompareCodesIsAnOrder ==
    callResult.fn = "compareCodes" =>
        /\ Sign(callResult.ab) = 0 - Sign(callResult.ba)
        /\ (callResult.ab < 0 /\ callResult.bc < 0) => callResult.ac < 0

\* Codes of different depth, the middle one with a segment that is not
\* numeric.
C13_Witness ==
    /\ callResult.fn = "compareCodes"
    /\ callArgs.a = <<"1">> /\ callArgs.b = <<"1", ".", "x">>
    /\ callArgs.c = <<"1", ".", "2">>
    /\ callResult.ab < 0 /\ callResult.bc < 0 /\ callResult.ac < 0

\* C16: normalizeCategory maps both legacy synonyms to the canonical
\* category, returns the canonical category and every other value unchanged,
\* and applied twice gives what it gives applied once.
C16_NormalizeCategory ==
    callResult.fn = "normalizeCategory" =>
        LET v == callArgs.value
        IN  /\ v \in {"A-Level", "GCE \"A\" Levels"} => callResult.once = CANONICAL_CATEGORY
            /\ v \notin {"A-Level", "GCE \"A\" Levels"} => callResult.once = v
            /\ callResult.twice = callResult.once

C16_Witness ==
    /\ callResult.fn = "normalizeCategory"
    /\ callArgs.value = "GCE \"A\" Levels"
    /\ callResult.once = CANONICAL_CATEGORY

\* ---- claims on the grouping and the import ----

\* How often an item occurs as a subtheme of the groups.
Occurrences(groups, item) ==
    Cardinality({ <<g, k>> \in (DOMAIN groups) \X (1..MaxItems) :
                     k <= Len(groups[g].subthemes) /\ groups[g].subthemes[k] = item })

ExampleTaxonomy == <<ItemPool[1], ItemPool[2], ItemPool[3], ItemPool[4]>>
ExampleGroups ==
    << [code |-> <<"1">>, title |-> <<"Theme One">>,
        subthemes |-> <<ItemPool[2], ItemPool[3]>>],
       [code |-> <<"3">>, title |-> <<"Theme", " ", "3", ":", " ", "Orphan">>,
        subthemes |-> <<ItemPool[4]>>] >>

\* C14: grouping drops no subtheme: every item with a title and a dotted
\* code is a subtheme of exactly one group, the group of its leading segment;
\* a group without a main-theme item is titled "Theme <code>: <title of its
\* lowest-sorted subtheme>"; the example list yields exactly its two groups.
C14_GroupingKeepsEverySubtheme ==
    callResult.fn = "themeGroups" =>
        LET subs == callArgs.subtopics
            groups == callResult.groups
        IN  /\ \A k \in DOMAIN subs :
                  (Trim(subs[k].title) # <<>> /\ ~isMainTheme(subs[k])) =>
                      /\ Occurrences(groups, subs[k]) = 1
                      /\ \E g \in DOMAIN groups :
                            /\ groups[g].code = Split(subs[k].code)[1]
                            /\ \E j \in DOMAIN groups[g].subthemes :
                                  groups[g].subthemes[j] = subs[k]
            /\ \A g \in DOMAIN groups :
                  (\A k \in DOMAIN subs : subs[k].code # groups[g].code) =>
                      /\ groups[g].subthemes # <<>>
                      /\ \A j \in DOMAIN groups[g].subthemes :
                            compareCodes(groups[g].subthemes[1].code,
                                         groups[g].subthemes[j].code) <= 0
                      /\ groups[g].title = <<"Theme", " ">> \o groups[g].code \o <<":", " ">>
                                               \o groups[g].subthemes[1].title
            /\ subs = ExampleTaxonomy => groups = ExampleGroups

C14_Witness ==
    /\ callResult.fn = "themeGroups"
    /\ callArgs.subtopics = <<ItemPool[4], ItemPool[3], ItemPool[2]>>
    /\ Len(callResult.groups) = 2
    /\ callResult.groups[2].title = <<"Theme", " ", "3", ":", " ", "Orphan">>
    /\ callResult.groups[1].subthemes = <<ItemPool[2], ItemPool[3]>>

\* No two entries of a list have the same code, and the entry of a code has
\* the title supplied last for that code.
CollapsedByCode(supplied, entries) ==
    /\ \A i, j \in DOMAIN entries : i # j => entries[i].code # entries[j].code
    /\ \A i \in DOMAIN entries :
          \A k \in DOMAIN supplied :
              ( /\ supplied[k].code = entries[i].code
                /\ \A l \in (k + 1)..Len(supplied) : supplied[l].code # supplied[k].code )
              => entries[i].title = supplied[k].title

\* C15: in the bulk payload of the import, and among the subthemes of the
\* derived groups, two entries with the same code string are one entry that
\* has the most recently supplied title.
C15_SameCodeCollapses ==
    /\ callResult.fn = "cleanedSubtopics" =>
          CollapsedByCode(GroupedItems(callArgs.subtopics), callResult.subtopics)
    /\ callResult.fn = "themeGroups" =>
          \A g \in DOMAIN callResult.groups :
              CollapsedByCode(GroupedItems(callArgs.subtopics),
                              callResult.groups[g].subthemes)

\* ---- claims on what the pipelines send ----

LegacyCategories == {"A-Level", "GCE \"A\" Levels"}

\* C17: the category of the context most recently pushed (by syncContext or
\* by the per-document pushContext) is never a legacy synonym.
C17_PushedCategoryIsNormalized ==
    lastContext.category \notin LegacyCategories

\* C18: a taxonomy fetch is issued for every document: no document reaches
\* its oracle call without a taxonomy response.
C18_TaxonomyFetchedForEveryDocument ==
    \A r \in RunIds : runs[r].pc = "oracle_wait" => runs[r].subtopicRes # "null"

(***************************************************************************)
(* SpecSelection: the taxonomy sidebar.  The subtopics of a subject are    *)
(* loaded, themeGroups derives the groups shown, and the checkboxes toggle *)
(* codes of the selection.                                                 *)
(***************************************************************************)

\* themeCodes.filter((code) => selectedCodeSet.has(code)).length
selectedCount(group, selected) ==
    Cardinality({ k \in DOMAIN themeCodes(group) :
                    \E j \in DOMAIN selected : selected[j] = themeCodes(group)[k] })

isChecked(group, selected) ==
    Len(themeCodes(group)) > 0 /\ selectedCount(group, selected) = Len(themeCodes(group))

isPartial(group, selected) ==
    selectedCount(group, selected) > 0
        /\ selectedCount(group, selected) < Len(themeCodes(group))

\* loadSubtopics(targetSubject) and the answer to its GET /subtopics: no
\* subject clears the list and the selection; a body that is JSON replaces
\* the list (by nothing when it has no subtopics array) and clears the
\* selection; a failed request or a body that is not JSON sets an error
\* status.
LoadSubtopics(targetSubject, outcome, data) ==
    /\ targetSubject = "All" => outcome = "ok"       \* no request is made
    /\ (targetSubject = "All" \/ outcome # "ok") => data = <<>>
    /\ IF targetSubject = "All"
       THEN /\ subtopics' = <<>>
            /\ selectedSubtopicCodes' = <<>>
            /\ UNCHANGED status
       ELSE IF outcome \in {"neterr", "notjson"}
       THEN /\ status' = Error("Could not load subtopics.")
            /\ UNCHANGED <<subtopics, selectedSubtopicCodes>>
       ELSE /\ subtopics' = IF outcome = "ok" THEN data ELSE <<>>
            /\ selectedSubtopicCodes' = <<>>
            /\ UNCHANGED status
    /\ UNCHANGED <<subject, category, document_name, questionUploadFiles, isLoading,
                   isScrapingDocs, puterAvailable, loads, runs, lastContext,
                   callArgs, syllabus, collectionVars, callResult, viewVars>>

\* A click on the checkbox of a theme group: event.target.checked is the
\* opposite of the checked state shown.
ToggleTheme(group) ==
    /\ selectedSubtopicCodes' =
           toggleCodes(selectedSubtopicCodes, themeCodes(group),
                       ~isChecked(group, selectedSubtopicCodes))
    /\ UNCHANGED <<pipelineVars, viewVars, subtopics, callArgs, syllabus, collectionVars, callResult>>

\* A click on the checkbox of subtheme j of a group.
ToggleSubtheme(group, j) ==
    /\ LET code == group.subthemes[j].code
       IN  selectedSubtopicCodes' =
               toggleCodes(selectedSubtopicCodes, <<code>>,
                           \A k \in DOMAIN selectedSubtopicCodes :
                               selectedSubtopicCodes[k] # code)
    /\ UNCHANGED <<pipelineVars, viewVars, subtopics, callArgs, syllabus, collectionVars, callResult>>

\* The Clear button
clearSubtopicSelection ==
    /\ selectedSubtopicCodes' = <<>>
    /\ UNCHANGED <<pipelineVars, viewVars, subtopics, callArgs, syllabus, collectionVars, callResult>>

\* The lists GET /subtopics answers with: up to MaxItems items of the pool, in
\* the order of the pool.
SubtopicResponses ==
    { SelectSeq(ItemPool, LAMBDA item : item \in chosen) :
        chosen \in { c \in SUBSET Range(ItemPool) : Cardinality(c) <= MaxItems } }

NextSelection ==
    \/ \E targetSubject \in Subjects, outcome \in CallOutcomes \cup {"notjson"},
          data \in SubtopicResponses : LoadSubtopics(targetSubject, outcome, data)
    \/ \E group \in Range(themeGroups(subtopics)) : ToggleTheme(group)
    \/ \E group \in Range(themeGroups(subtopics)) :
          \E j \in DOMAIN group.subthemes : ToggleSubtheme(group, j)
    \/ clearSubtopicSelection

SpecSelection == Init /\ [][NextSelection]_vars

\* ---- claims on the selection ----

\* C19: a click on a theme checkbox changes the selection in one step by the
\* theme's own code and all its subtheme codes: switching it on adds them
\* all, switching it off removes them all, and the membership of every other
\* code is unchanged.
C19_ThemeToggleIsAtomic ==
    [][ subtopics' = subtopics =>
            \A group \in Range(themeGroups(subtopics)) :
                ToggleTheme(group) =>
                    LET codes == Range(themeCodes(group))
                        before == Range(selectedSubtopicCodes)
                        after == Range(selectedSubtopicCodes')
                    IN  IF isChecked(group, selectedSubtopicCodes)
                        THEN after = before \ codes
                        ELSE after = before \cup codes ]_vars

\* Theme 1 switched on with both its subthemes, code 3.1 selected before.
C19_Witness ==
    /\ subtopics = ExampleTaxonomy
    /\ selectedSubtopicCodes =
           << <<"1">>, <<"1", ".", "1">>, <<"1", ".", "2">>, <<"3", ".", "1">> >>

\* The codes of the subthemes of a group that are selected.
SelectedSubthemes(group, selected) ==
    { k \in DOMAIN group.subthemes :
        \E j \in DOMAIN selected : selected[j] = group.subthemes[k].code }

\* C20: a theme is shown partial exactly when some but not all of its
\* subtheme codes are selected, and checked exactly when all of them are.
C20_PartialFromSubthemeCodes ==
    \A g \in DOMAIN themeGroups(subtopics) :
        LET group == themeGroups(subtopics)[g]
            n == Cardinality(SelectedSubthemes(group, selectedSubtopicCodes))
        IN  /\ isPartial(group, selectedSubtopicCodes) <=> (0 < n /\ n < Len(group.subthemes))
            /\ isChecked(group, selectedSubtopicCodes) <=> (n = Len(group.subthemes))

\* C36: every selected code is the code of an item of the taxonomy loaded.
C36_SelectedCodesAreTaxonomyNodes ==
    \A k \in DOMAIN selectedSubtopicCodes :
        \E j \in DOMAIN subtopics : Trim(subtopics[j].code) = selectedSubtopicCodes[k]

(***************************************************************************)
(* SpecCollections: the collections panel beside the taxonomy sidebar.     *)
(* The rows GET /collections answers with are their ids; the selection and *)
(* the add target hold ids as strings.                                     *)
(***************************************************************************)
MaxCollections == 2     \* rows of one GET /collections response

CollectionIdPool == <<1, 2, 12>>

\* The lists GET /collections answers with: up to MaxCollections different
\* ids, in any order.
CollectionResponses ==
    UNION { { [k \in 1..n |-> CollectionIdPool[f[k]]] :
                f \in { g \in [1..n -> DOMAIN CollectionIdPool] :
                          \A i, j \in 1..n : i # j => g[i] # g[j] } } :
            n \in 0..MaxCollections }

\* Number(value) of a string: 0 for the empty string, the number a string of
\* digits denotes, NaN otherwise.
ToNumber(str) ==
    IF str = <<>> THEN [isNaN |-> FALSE, value |-> 0]
    ELSE IF \A k \in DOMAIN str : IsDigit(str[k])
    THEN [isNaN |-> FALSE, value |-> ParseDigits(str, 0)]
    ELSE [isNaN |-> TRUE, value |-> 0]

\* validIds.has(Number(id)) for validIds = new Set(rows.map((row) => Number(row.id)))
isValidId(rows, id) ==
    ~ToNumber(id).isNaN /\ \E k \in DOMAIN rows : rows[k] = ToNumber(id).value

\* A load that leaves the selection and the add target as they are, for
\* comparison with LoadCollections.
LoadCollectionsKeepingSelection(outcome, rows) ==
    /\ outcome # "ok" => rows = <<>>
    /\ IF outcome = "ok"
       THEN /\ collections' = rows
            /\ UNCHANGED <<selectedCollectionIds, collectionForAddId, status>>
       ELSE /\ status' = Error("Could not load collections.")
            /\ UNCHANGED collectionVars
    /\ UNCHANGED <<subject, category, document_name, questionUploadFiles, isLoading,
                   isScrapingDocs, puterAvailable, loads, runs, lastContext,
                   subtopics, selectedSubtopicCodes, callArgs, syllabus, callResult, viewVars>>

\* loadCollections and the answer to its GET /collections: a response that
\* is ok and JSON replaces the list, drops the selected ids that are not in
\* it and keeps the add target if it is in it, taking the first row
\* otherwise; any failure sets an error status.
LoadCollections(outcome, rows) ==
    /\ outcome # "ok" => rows = <<>>
    /\ IF outcome = "ok"
       THEN /\ collections' = rows
            /\ selectedCollectionIds' =
                   SelectSeq(selectedCollectionIds, LAMBDA id : isValidId(rows, id))
            /\ collectionForAddId' =
                   IF collectionForAddId # <<>> /\ isValidId(rows, collectionForAddId)
                   THEN collectionForAddId
                   ELSE IF rows # <<>> THEN NumberToString(rows[1]) ELSE <<>>
            /\ UNCHANGED status
       ELSE /\ status' = Error("Could not load collections.")
            /\ UNCHANGED collectionVars
    /\ UNCHANGED <<subject, category, document_name, questionUploadFiles, isLoading,
                   isScrapingDocs, puterAvailable, loads, runs, lastContext,
                   subtopics, selectedSubtopicCodes, callArgs, syllabus, callResult, viewVars>>

\* The updater toggleCollectionSelection passes to setSelectedCollectionIds.
toggleCollectionSelection(previous, collectionId, shouldSelect) ==
    LET stringId == NumberToString(collectionId)
    IN  IF shouldSelect THEN Dedupe(Append(previous, stringId))
        ELSE SelectSeq(Dedupe(previous), LAMBDA id : id # stringId)

\* A click on the checkbox of a collection of the list: event.target.checked
\* is the opposite of the checked state shown.
ToggleCollection(collectionId) ==
    /\ \E k \in DOMAIN collections : collections[k] = collectionId
    /\ selectedCollectionIds' =
           toggleCollectionSelection(selectedCollectionIds, collectionId,
               \A k \in DOMAIN selectedCollectionIds :
                   selectedCollectionIds[k] # NumberToString(collectionId))
    /\ UNCHANGED <<pipelineVars, viewVars, subtopics, selectedSubtopicCodes, callArgs, syllabus,
                   callResult, collections, collectionForAddId>>

\* A Clear button that clears both selections, for comparison with
\* clearCollectionSelection.
clearBothSelections ==
    /\ selectedCollectionIds' = <<>>
    /\ selectedSubtopicCodes' = <<>>
    /\ UNCHANGED <<pipelineVars, viewVars, subtopics, callArgs, syllabus, callResult, collections,
                   collectionForAddId>>

\* The Clear button of the collections panel
clearCollectionSelection ==
    /\ selectedCollectionIds' = <<>>
    /\ UNCHANGED <<pipelineVars, viewVars, subtopics, selectedSubtopicCodes, callArgs, syllabus,
                   callResult, collections, collectionForAddId>>

\* The select of the add target: one of the collections listed, or the
\* option without a value.
SelectAddTarget(value) ==
    /\ value # collectionForAddId
    /\ value = <<>> \/ \E k \in DOMAIN collections : NumberToString(collections[k]) = value
    /\ collectionForAddId' = value
    /\ UNCHANGED <<pipelineVars, viewVars, subtopics, selectedSubtopicCodes, callArgs, syllabus,
                   callResult, collections, selectedCollectionIds>>

\* The taxonomies loaded beside the collections.
CollectionTaxonomies == { <<>>, ExampleTaxonomy }

NextCollections ==
    \/ \E targetSubject \in Subjects, outcome \in CallOutcomes \cup {"notjson"},
          data \in CollectionTaxonomies : LoadSubtopics(targetSubject, outcome, data)
    \/ \E group \in Range(themeGroups(subtopics)) : ToggleTheme(group)
    \/ \E group \in Range(themeGroups(subtopics)) :
          \E j \in DOMAIN group.subthemes : ToggleSubtheme(group, j)
    \/ clearSubtopicSelection
    \/ \E outcome \in CallOutcomes \cup {"notjson"}, rows \in CollectionResponses :
          LoadCollections(outcome, rows)
    \/ \E k \in DOMAIN CollectionIdPool : ToggleCollection(CollectionIdPool[k])
    \/ clearCollectionSelection
    \/ \E k \in DOMAIN CollectionIdPool :
          SelectAddTarget(NumberToString(CollectionIdPool[k]))
    \/ SelectAddTarget(<<>>)

SpecCollections == Init /\ [][NextCollections]_vars

\* ---- claims on the collections ----

\* C33: the two selections are independent: a step that changes the
\* collection selection (a toggle, the Clear button) leaves the selected
\* codes as they are, and a step that changes the selected codes leaves the
\* collection selection as it is.
C33_SelectionsIndependent ==
    [][ /\ selectedCollectionIds' # selectedCollectionIds =>
              selectedSubtopicCodes' = selectedSubtopicCodes
        /\ selectedSubtopicCodes' # selectedSubtopicCodes =>
              selectedCollectionIds' = selectedCollectionIds ]_vars

\* Codes and collections are selected at the same time.
C33_Witness ==
    /\ selectedSubtopicCodes = << <<"1">>, <<"1", ".", "1">>, <<"1", ".", "2">> >>
    /\ selectedCollectionIds = << <<"2">>, <<"1", "2">> >>

\* C38: after a successful loadCollections every selected collection id is
\* the id of a row loaded, only the ids that are not have been dropped, and
\* the add target is the id of a row loaded, or empty when no row is.
C38_SelectionWithinLoadedCollections ==
    [][ (\E rows \in CollectionResponses : LoadCollections("ok", rows)) =>
           /\ \A k \in DOMAIN selectedCollectionIds' :
                 \E j \in DOMAIN collections' :
                     NumberToString(collections'[j]) = selectedCollectionIds'[k]
           /\ \A k \in DOMAIN selectedCollectionIds :
                 (\E j \in DOMAIN collections' :
                      NumberToString(collections'[j]) = selectedCollectionIds[k])
                   => \E i \in DOMAIN selectedCollectionIds' :
                          selectedCollectionIds'[i] = selectedCollectionIds[k]
           /\ IF collections' = <<>> THEN collectionForAddId' = <<>>
              ELSE \E j \in DOMAIN collections' :
                       NumberToString(collections'[j]) = collectionForAddId' ]_vars

\* The list was reloaded with a selection: the id selected and chosen as
\* add target is still in the list, behind a row that was not.
C38_Witness ==
    /\ collections = <<12, 2>>
    /\ selectedCollectionIds = << <<"2">> >>
    /\ collectionForAddId = <<"2">>

(***************************************************************************)
(* SpecTermination: the three pipelines, one run after another.  A run is  *)
(* started and the subject is changed by the user only while no run is in  *)
(* progress; every request and every oracle call is answered or fails.  A  *)
(* behaviour has runs of at most MaxPipelines of the three pipelines.      *)
(***************************************************************************)

\* The frame of the steps of a syllabus run.
syllabusFrame ==
    <<category, document_name, questionUploadFiles, isScrapingDocs, puterAvailable, runs,
      lastContext, callArgs, callResult, viewVars, collectionVars>>

\* The click on the syllabus button that returns early.
ExtractSyllabusRejected(hasFile) ==
    /\ ~isLoading
    /\ ~hasFile \/ ~puterAvailable
    /\ status' = IF ~hasFile THEN Error("Select a syllabus PDF first.")
                 ELSE Error("Puter.js is not available.")
    /\ UNCHANGED <<subject, isLoading, loads, subtopics, selectedSubtopicCodes, syllabus,
                   syllabusFrame>>

\* extractSubtopicsFromSyllabus up to the awaited POST /syllabus/extract
ExtractSubtopicsFromSyllabus ==
    /\ ~isLoading
    /\ puterAvailable
    /\ syllabus.pc \in Finished
    /\ isLoading' = TRUE
    /\ status' = Idle("")
    /\ syllabus' = [pc |-> "extract_wait", subjectC |-> subject]
    /\ UNCHANGED <<subject, loads, subtopics, selectedSubtopicCodes, syllabusFrame>>

\* A syllabus run that ends in failure without a finally block, for
\* comparison with SyllabusFail.
SyllabusFailNoFinally(message) ==
    /\ status' = Error(IF message # "" THEN message ELSE "Subtopic extraction failed.")
    /\ syllabus' = [syllabus EXCEPT !.pc = "failed"]
    /\ UNCHANGED <<subject, isLoading, loads, subtopics, selectedSubtopicCodes,
                   syllabusFrame>>

\* catch (err) { setStatus(error) } finally { setIsLoading(false) }
SyllabusFail(message) ==
    /\ status' = Error(IF message # "" THEN message ELSE "Subtopic extraction failed.")
    /\ isLoading' = FALSE
    /\ syllabus' = [syllabus EXCEPT !.pc = "failed"]
    /\ UNCHANGED <<subject, loads, subtopics, selectedSubtopicCodes, syllabusFrame>>

\* POST /syllabus/extract is answered; on success the oracle is called.
SyllabusExtractResponse(outcome, detail) ==
    /\ syllabus.pc = "extract_wait"
    /\ outcome # "notok" => detail = ""
    /\ IF outcome = "ok"
       THEN /\ syllabus' = [syllabus EXCEPT !.pc = "oracle_wait"]
            /\ UNCHANGED <<subject, isLoading, status, loads, subtopics,
                           selectedSubtopicCodes, syllabusFrame>>
       ELSE SyllabusFail(IF outcome = "neterr" THEN NetworkErrorMessage
                         ELSE IF outcome = "notjson" THEN BodyErrorMessage
                         ELSE IF detail # "" THEN detail ELSE "Syllabus extraction failed.")

\* The oracle call raises.
SyllabusOracleError(message) ==
    /\ syllabus.pc = "oracle_wait"
    /\ SyllabusFail(message)

\* The oracle answers: the output is parsed and, unless that raises, the
\* subtopics are posted to /subtopics/bulk.
SyllabusOracleResponse(output) ==
    /\ syllabus.pc = "oracle_wait"
    /\ IF parseAiJsonThrows(output)
       THEN SyllabusFail(SyntaxErrorMessage)
       ELSE /\ syllabus' = [syllabus EXCEPT !.pc = "bulk_wait"]
            /\ UNCHANGED <<subject, isLoading, status, loads, subtopics,
                           selectedSubtopicCodes, syllabusFrame>>

\* POST /subtopics/bulk is answered and its body read (the status is not
\* read): the success status is set and loadSubjects issues GET /subjects.
SyllabusBulkResponse(outcome) ==
    /\ syllabus.pc = "bulk_wait"
    /\ IF outcome \in {"neterr", "notjson"}
       THEN SyllabusFail(IF outcome = "neterr" THEN NetworkErrorMessage
                         ELSE BodyErrorMessage)
       ELSE /\ status' = Success("Seeded subtopics.", 0)
            /\ syllabus' = [syllabus EXCEPT !.pc = "subjects_wait"]
            /\ UNCHANGED <<subject, isLoading, loads, subtopics, selectedSubtopicCodes,
                           syllabusFrame>>

\* The subject of the bulk payload, when the oracle named none: the subject
\* of the render, 'Economics' in place of 'All'.
SyllabusSubject(run) == IF run.subjectC = "All" THEN DefaultSubject ELSE run.subjectC

\* GET /subjects is answered (loadSubjects catches what it throws); then
\* setSubject(payload.subject), with the query effect of the render that
\* follows, and loadSubtopics(payload.subject) issues GET /subtopics.
SyllabusSubjectsResponse(outcome) ==
    /\ syllabus.pc = "subjects_wait"
    /\ subject' = SyllabusSubject(syllabus)
    /\ IF SyllabusSubject(syllabus) # subject
       THEN QueryEffect(TRUE)
       ELSE /\ status' = IF outcome \in {"neterr", "notjson"}
                         THEN Error("Could not load subjects from API.")
                         ELSE status
            /\ UNCHANGED <<loads, isLoading>>
    /\ syllabus' = [syllabus EXCEPT !.pc = "subtopics_wait"]
    /\ UNCHANGED <<subtopics, selectedSubtopicCodes, syllabusFrame>>

\* GET /subtopics of the run's loadSubtopics is answered (loadSubtopics
\* catches its own failure); the finally block clears isLoading.
SyllabusSubtopicsResponse(outcome, data) ==
    /\ syllabus.pc = "subtopics_wait"
    /\ outcome # "ok" => data = <<>>
    /\ IF outcome \in {"neterr", "notjson"}
       THEN /\ status' = Error("Could not load subtopics.")
            /\ UNCHANGED <<subtopics, selectedSubtopicCodes>>
       ELSE /\ subtopics' = data
            /\ selectedSubtopicCodes' = <<>>
            /\ UNCHANGED status
    /\ isLoading' = FALSE
    /\ syllabus' = [syllabus EXCEPT !.pc = "done"]
    /\ UNCHANGED <<subject, loads, syllabusFrame>>

\* No run of any pipeline is in progress.
NoRunInProgress ==
    syllabus.pc \in Finished /\ \A r \in RunIds : runs[r].pc \in Finished

\* The pipelines that have run.
UsedPipelines ==
    { r \in RunIds : runs[r].pc # "idle" } \cup
    (IF syllabus.pc # "idle" THEN {"syllabus"} ELSE {})

\* Pipeline p may run: with it, at most MaxPipelines pipelines have run.
MayRun(p) == Cardinality(UsedPipelines \cup {p}) <= MaxPipelines

\* What the user does while no run is in progress.
UserSteps ==
    /\ NoRunInProgress
    /\ \/ \E s \in Subjects : SelectSubject(s)
       \/ SelectFiles
       \/ RunUploadedRejected
       \/ MayRun("uploaded") /\ RunUploadedAiPipeline
       \/ RunScrapedRejected
       \/ MayRun("scraped") /\ RunScrapedAiPipeline
       \/ \E hasFile \in BOOLEAN : ExtractSyllabusRejected(hasFile)
       \/ MayRun("syllabus") /\ ExtractSubtopicsFromSyllabus

\* The answers to the calls of a scraped or uploaded run.
RunResponses(r) ==
    \/ \E outcome \in CallOutcomes, docs \in DocBatches : UploadResponse(r, outcome, docs)
    \/ \E outcome \in CallOutcomes : ScraperConfigResponse(r, outcome)
    \/ \E outcome \in CallOutcomes : SyncContextResponse(r, outcome)
    \/ \E outcome \in CallOutcomes, docs \in DocBatches : DataResponse(r, outcome, docs)
    \/ \E outcome \in CallOutcomes : ContextResponse(r, outcome)
    \/ \E outcome \in CallOutcomes \cup {"notjson"} : SubtopicsResponse(r, outcome)
    \/ \E message \in OracleErrorMessages : OracleError(r, message)
    \/ \E output \in OracleOutputs : OracleResponse(r, output)
    \/ \E outcome \in CallOutcomes \cup {"notjson"}, detail \in DetailTexts :
          AiResultResponse(r, outcome, detail)
    \/ \E outcome \in CallOutcomes : PipelineQuestionsResponse(r, outcome)
    \/ \E outcome \in {"ok", "neterr"} : FiltersResponse(r, outcome)

\* The answers to the calls of a syllabus run.
SyllabusResponses ==
    \/ \E outcome \in CallOutcomes \cup {"notjson"}, detail \in DetailTexts :
          SyllabusExtractResponse(outcome, detail)
    \/ \E message \in OracleErrorMessages : SyllabusOracleError(message)
    \/ \E output \in OracleOutputs : SyllabusOracleResponse(output)
    \/ \E outcome \in CallOutcomes \cup {"notjson"} : SyllabusBulkResponse(outcome)
    \/ \E outcome \in CallOutcomes \cup {"notjson"} : SyllabusSubjectsResponse(outcome)
    \/ \E outcome \in CallOutcomes \cup {"notjson"}, data \in CollectionTaxonomies :
          SyllabusSubtopicsResponse(outcome, data)

\* The answer to the GET /questions of a reload.
ReloadResponses == \E outcome \in CallOutcomes : LoadQuestionsDone(outcome)

NextTermination ==
    \/ UserSteps
    \/ \E r \in RunIds : RunResponses(r)
    \/ SyllabusResponses
    \/ ReloadResponses

\* Every call in flight is answered or fails.
EveryCallReturns ==
    /\ \A r \in RunIds : WF_vars(RunResponses(r))
    /\ WF_vars(SyllabusResponses)
    /\ WF_vars(ReloadResponses)

SpecTermination == Init /\ [][NextTermination]_vars /\ EveryCallReturns

\* ---- claims on the end of the runs ----

\* A scraped or uploaded run, or the syllabus run, ends in this step.
RunEnds ==
    \/ \E r \in RunIds : runs[r].pc \notin Finished /\ runs'[r].pc \in Finished
    \/ syllabus.pc \notin Finished /\ syllabus'.pc \in Finished

\* Every run in progress ends.
EveryRunEnds ==
    /\ \A r \in RunIds : (runs[r].pc \notin Finished) ~> (runs[r].pc \in Finished)
    /\ (syllabus.pc \notin Finished) ~> (syllabus.pc \in Finished)

MaxQueries == 2        \* GET /questions requests in flight
DebounceTicks == 2     \* ticks of the debounce delay
RESULTS_PAGE_SIZE == 8

\* What the search input can hold: nothing, a word, the word with a space
\* typed after it, a longer word.
SearchTexts == { <<>>, <<"a">>, <<"a", " ">>, <<"a", "b">> }

\* The lengths of the lists a response to GET /questions holds.
ScrapedLengths == {0, 9, 17}
UploadedLengths == {0, 8}

Query(s, search) == [subject |-> s, search |-> search]

\* displayedQuestions.length
displayedCount == IF resultsView = "uploaded" THEN uploadedQuestions ELSE scrapedQuestions

\* Math.max(1, Math.ceil(count / RESULTS_PAGE_SIZE))
totalResultPages(count) ==
    LET pages == (count + RESULTS_PAGE_SIZE - 1) \div RESULTS_PAGE_SIZE
    IN  IF pages < 1 THEN 1 ELSE pages

\* The page taken as it is, for comparison.
safeResultsPageUnclamped(page, total) == page

\* Math.min(resultsPage, totalResultPages)
safeResultsPage(page, total) == IF page < total THEN page ELSE total

\* pagedQuestions.length: the slice from (safe - 1) * size to safe * size.
pagedCount(count, page) ==
    LET from == (page - 1) * RESULTS_PAGE_SIZE
        to == IF page * RESULTS_PAGE_SIZE < count THEN page * RESULTS_PAGE_SIZE ELSE count
    IN  IF to > from THEN to - from ELSE 0

\* The page reset effect has run for the present values of its dependencies.
EffectsFlushed == pageEffectDeps = <<resultsView, scrapedQuestions, uploadedQuestions>>

\* The query effect, run because one of its dependencies changed: without a
\* subject it empties the lists and resets the page, with one it calls
\* loadQuestions, which issues GET /questions for the values of the render.
RunQueryEffect(s, search) ==
    IF s = "All"
    THEN /\ scrapedQuestions' = 0
         /\ uploadedQuestions' = 0
         /\ resultsPage' = 1
         /\ latestQuery' = Query(s, search)
         /\ shownQuery' = Query(s, search)
         /\ UNCHANGED <<queries, loads, isLoading, status>>
    ELSE /\ Len(queries) < MaxQueries
         /\ queries' = Append(queries, Query(s, search))
         /\ loads' = Len(queries) + 1
         /\ latestQuery' = Query(s, search)
         /\ isLoading' = TRUE
         /\ status' = Idle("")
         /\ UNCHANGED <<scrapedQuestions, uploadedQuestions, resultsPage, shownQuery>>

\* The subject select, with the query its change gives rise to.
SetSubject(s) ==
    /\ EffectsFlushed
    /\ s # subject
    /\ subject' = s
    /\ RunQueryEffect(s, debouncedQuestionSearch)
    /\ UNCHANGED <<category, document_name, questionUploadFiles, isScrapingDocs,
                   puterAvailable, runs, lastContext, subtopics, selectedSubtopicCodes,
                   callArgs, syllabus, collectionVars, callResult, questionSearch, debouncedQuestionSearch,
                   searchTimer, resultsView, pageEffectDeps>>

\* A search input without the delay, for comparison: the change is the
\* effective term at once.
TypeSearchNoDebounce(text) ==
    /\ EffectsFlushed
    /\ text # questionSearch
    /\ questionSearch' = text
    /\ debouncedQuestionSearch' = Trim(text)
    /\ IF Trim(text) # debouncedQuestionSearch
       THEN RunQueryEffect(subject, Trim(text))
       ELSE UNCHANGED <<queries, loads, latestQuery, shownQuery, isLoading, status,
                        scrapedQuestions, uploadedQuestions, resultsPage>>
    /\ UNCHANGED <<subject, category, document_name, questionUploadFiles, isScrapingDocs,
                   puterAvailable, runs, lastContext, subtopics, selectedSubtopicCodes,
                   callArgs, syllabus, collectionVars, callResult, searchTimer, resultsView, pageEffectDeps>>

\* A change of the search input (typing, pasting, the clear button):
\* setQuestionSearch, then the debounce effect, whose cleanup clears the
\* timeout of the render before and which sets a new one.
TypeSearch(text) ==
    /\ EffectsFlushed
    /\ text # questionSearch
    /\ questionSearch' = text
    /\ searchTimer' = [pending |-> TRUE, left |-> DebounceTicks]
    /\ UNCHANGED <<pipelineVars, subtopics, selectedSubtopicCodes, callArgs, syllabus, collectionVars, callResult,
                   debouncedQuestionSearch, queries, latestQuery, shownQuery,
                   scrapedQuestions, uploadedQuestions, resultsView, resultsPage,
                   pageEffectDeps>>

\* One tick passes while a timeout is pending and not yet due.
Tick ==
    /\ EffectsFlushed
    /\ searchTimer.pending /\ searchTimer.left > 0
    /\ searchTimer' = [searchTimer EXCEPT !.left = @ - 1]
    /\ UNCHANGED <<pipelineVars, subtopics, selectedSubtopicCodes, callArgs, syllabus, collectionVars, callResult,
                   questionSearch, debouncedQuestionSearch, queries, latestQuery,
                   shownQuery, scrapedQuestions, uploadedQuestions, resultsView,
                   resultsPage, pageEffectDeps>>

\* The timeout fires: setDebouncedQuestionSearch(questionSearch.trim()), and
\* the query effect when that changes the term.
TimerFires ==
    /\ EffectsFlushed
    /\ searchTimer.pending /\ searchTimer.left = 0
    /\ searchTimer' = NoTimer
    /\ debouncedQuestionSearch' = Trim(questionSearch)
    /\ IF Trim(questionSearch) # debouncedQuestionSearch
       THEN RunQueryEffect(subject, Trim(questionSearch))
       ELSE UNCHANGED <<queries, loads, latestQuery, shownQuery, isLoading, status,
                        scrapedQuestions, uploadedQuestions, resultsPage>>
    /\ UNCHANGED <<subject, category, document_name, questionUploadFiles, isScrapingDocs,
                   puterAvailable, runs, lastContext, subtopics, selectedSubtopicCodes,
                   callArgs, syllabus, collectionVars, callResult, questionSearch, resultsView, pageEffectDeps>>

\* The request in flight at position k is answered: a success replaces both
\* lists, a failure sets the error status; the finally block clears
\* isLoading.
QuestionsResponse(k, outcome, scraped, uploaded) ==
    /\ EffectsFlushed
    /\ k \in DOMAIN queries
    /\ outcome # "ok" => (scraped = 0 /\ uploaded = 0)
    /\ queries' = SubSeq(queries, 1, k - 1) \o SubSeq(queries, k + 1, Len(queries))
    /\ loads' = Len(queries) - 1
    /\ isLoading' = FALSE
    /\ IF outcome = "ok"
       THEN /\ scrapedQuestions' = scraped
            /\ uploadedQuestions' = uploaded
            /\ shownQuery' = queries[k]
            /\ status' = Success("Loaded questions.", scraped + uploaded)
       ELSE /\ status' = Error("Could not fetch questions.")
            /\ UNCHANGED <<scrapedQuestions, uploadedQuestions, shownQuery>>
    /\ UNCHANGED <<subject, category, document_name, questionUploadFiles, isScrapingDocs,
                   puterAvailable, runs, lastContext, subtopics, selectedSubtopicCodes,
                   callArgs, syllabus, collectionVars, callResult, questionSearch, debouncedQuestionSearch,
                   searchTimer, latestQuery, resultsView, resultsPage, pageEffectDeps>>

\* The page reset effect: setResultsPage(1) after a render in which the view
\* or the length of a list changed.
PageResetEffect ==
    /\ ~EffectsFlushed
    /\ resultsPage' = 1
    /\ pageEffectDeps' = <<resultsView, scrapedQuestions, uploadedQuestions>>
    /\ UNCHANGED <<pipelineVars, subtopics, selectedSubtopicCodes, callArgs, syllabus, collectionVars, callResult,
                   questionSearch, debouncedQuestionSearch, searchTimer, queries,
                   latestQuery, shownQuery, scrapedQuestions, uploadedQuestions,
                   resultsView>>

\* The Prev button, disabled on the first page.
PrevPage ==
    /\ EffectsFlushed
    /\ safeResultsPage(resultsPage, totalResultPages(displayedCount)) > 1
    /\ resultsPage' = IF resultsPage - 1 < 1 THEN 1 ELSE resultsPage - 1
    /\ UNCHANGED <<pipelineVars, subtopics, selectedSubtopicCodes, callArgs, syllabus, collectionVars, callResult,
                   questionSearch, debouncedQuestionSearch, searchTimer, queries,
                   latestQuery, shownQuery, scrapedQuestions, uploadedQuestions,
                   resultsView, pageEffectDeps>>

\* The Next button, disabled on the last page.
NextPage ==
    /\ EffectsFlushed
    /\ safeResultsPage(resultsPage, totalResultPages(displayedCount))
           < totalResultPages(displayedCount)
    /\ resultsPage' = IF resultsPage + 1 > totalResultPages(displayedCount)
                      THEN totalResultPages(displayedCount) ELSE resultsPage + 1
    /\ UNCHANGED <<pipelineVars, subtopics, selectedSubtopicCodes, callArgs, syllabus, collectionVars, callResult,
                   questionSearch, debouncedQuestionSearch, searchTimer, queries,
                   latestQuery, shownQuery, scrapedQuestions, uploadedQuestions,
                   resultsView, pageEffectDeps>>

\* The buttons of the two views: setResultsView
SetResultsView(view) ==
    /\ EffectsFlushed
    /\ view # resultsView
    /\ resultsView' = view
    /\ UNCHANGED <<pipelineVars, subtopics, selectedSubtopicCodes, callArgs, syllabus, collectionVars, callResult,
                   questionSearch, debouncedQuestionSearch, searchTimer, queries,
                   latestQuery, shownQuery, scrapedQuestions, uploadedQuestions,
                   resultsPage, pageEffectDeps>>

NextResults ==
    \/ \E s \in Subjects : SetSubject(s)
    \/ \E text \in SearchTexts : TypeSearch(text)
    \/ Tick
    \/ TimerFires
    \/ \E k \in 1..MaxQueries, outcome \in CallOutcomes,
          scraped \in ScrapedLengths, uploaded \in UploadedLengths :
            QuestionsResponse(k, outcome, scraped, uploaded)
    \/ PageResetEffect
    \/ PrevPage
    \/ NextPage
    \/ \E view \in {"scraped", "uploaded"} : SetResultsView(view)

SpecResults == Init /\ [][NextResults]_vars

\* ---- claims on the search, the pages and the queries ----

\* C21 as claimed: the step in which the timeout fires issues one question
\* query, for the final value of the input.
C21_OneQueryPerBurst ==
    [][ (searchTimer.pending /\ ~searchTimer'.pending) =>
            /\ Len(queries') = Len(queries) + 1
            /\ queries'[Len(queries')].search = questionSearch ]_vars

\* C21 as amended: a change of the input issues no query, leaves the
\* effective term as it is and restarts the full delay; the effective term
\* changes only when the timeout fires, a full delay after the last change,
\* and becomes the final value trimmed; that step issues one query, for the
\* trimmed final value, when a subject is selected and the trimmed value
\* differs from the term before, and none otherwise.
C21_DebouncedSearch ==
    [][ /\ questionSearch' # questionSearch =>
              /\ debouncedQuestionSearch' = debouncedQuestionSearch
              /\ queries' = queries
              /\ searchTimer' = [pending |-> TRUE, left |-> DebounceTicks]
        /\ debouncedQuestionSearch' # debouncedQuestionSearch =>
              /\ searchTimer.pending /\ searchTimer.left = 0
              /\ questionSearch' = questionSearch
        /\ (searchTimer.pending /\ ~searchTimer'.pending) =>
              /\ debouncedQuestionSearch' = Trim(questionSearch)
              /\ queries' =
                    IF subject # "All" /\ Trim(questionSearch) # debouncedQuestionSearch
                    THEN Append(queries, Query(subject, Trim(questionSearch)))
                    ELSE queries ]_vars

\* The input went from nothing to "ab" and the one query in flight is the
\* query for "ab".
C21_Witness ==
    /\ questionSearch = <<"a", "b">> /\ debouncedQuestionSearch = <<"a", "b">>
    /\ ~searchTimer.pending
    /\ shownQuery = Query("Economics", <<>>)
    /\ queries = <<Query("Economics", <<"a", "b">>)>>

\* C22: the page used to slice the displayed list lies between 1 and the
\* number of pages of that list (1 when the list is empty), in every render,
\* so the slice shown is empty only when the list is; once the page reset
\* effect has run, the page state itself lies in that range.
C22_PageWithinRange ==
    LET total == totalResultPages(displayedCount)
        page == safeResultsPage(resultsPage, total)
    IN  /\ total = IF displayedCount = 0 THEN 1
                   ELSE (displayedCount + RESULTS_PAGE_SIZE - 1) \div RESULTS_PAGE_SIZE
        /\ page \in 1..total
        /\ displayedCount > 0 => pagedCount(displayedCount, page) > 0
        /\ EffectsFlushed => resultsPage \in 1..total

\* The render after a response that shortened the list shown on page 3.
C22_Witness ==
    /\ resultsPage = 3 /\ resultsView = "scraped"
    /\ scrapedQuestions = 9 /\ pageEffectDeps = <<"scraped", 17, 0>>

\* C29: when no question query is in flight and the last response was a
\* success, the lists shown are the response to the query issued last.
C29_ShownIsLatestQuery ==
    (queries = <<>> /\ status.type = "success") => shownQuery = latestQuery

\* ---- claims on the session identifier and the requests ----

\* C23: getOrCreateClientSessionId returns the identifier the session storage
\* holds whenever it holds one and leaves the storage as it is; it generates
\* and stores one only when the storage holds none; all the calls against
\* one storage return the same identifier.
C23_SessionIdIsStable ==
    callResult.fn = "getOrCreateClientSessionId" =>
        LET returned == callResult.returned
        IN  /\ \A i, j \in DOMAIN returned : returned[i] = returned[j]
            /\ (callArgs.hasWindow /\ callArgs.stored # "") =>
                  /\ returned[1] = callArgs.stored
                  /\ callResult.stored = callArgs.stored
            /\ (callArgs.hasWindow /\ callArgs.stored = "") =>
                  /\ returned[1] \in GeneratedIds
                  /\ callResult.stored = returned[1]

\* Three loads against a storage that held no identifier at first.
C23_Witness ==
    /\ callResult.fn = "getOrCreateClientSessionId"
    /\ callArgs.hasWindow /\ callArgs.stored = ""
    /\ callResult.returned = <<"uuid-2", "uuid-2", "uuid-2">>

\* C24: the request issued at every call site carries the client session
\* identifier in the X-Client-Session header, next to the headers the call
\* site passed.
C24_EveryRequestCarriesSession ==
    callResult.fn = "apiFetch" =>
        /\ Header("X-Client-Session", callArgs.sessionId) \in callResult.request.headers
        /\ callArgs.site.headers \subseteq callResult.request.headers
        /\ callResult.request.path = callArgs.site.path

C24_Witness ==
    /\ callResult.fn = "apiFetch"
    /\ callArgs.site.path = "/ai-result"
    /\ callResult.request.headers =
           {Header("Content-Type", "application/json"),
            Header("X-Client-Session", clientSessionId)}

\* The segment is a number written in digits.
NumericSegment(part) == part # <<>> /\ \A k \in DOMAIN part : IsDigit(part[k])

\* C30: a missing or non-numeric segment compares lower than any numeric
\* one: a code sorts before the code made of it, a dot and a numeric segment;
\* a code whose segment at a position is not numeric sorts before every code
\* with the same preceding segments and a numeric segment at that position.
C30_MissingSegmentSortsFirst ==
    callResult.fn = "compareCodes" =>
        LET a == callArgs.a
            b == callArgs.b
            aParts == Split(a)
            bParts == Split(b)
        IN  /\ ( /\ Len(bParts) = Len(aParts) + 1
                 /\ SubSeq(bParts, 1, Len(aParts)) = aParts
                 /\ NumericSegment(bParts[Len(bParts)]) ) => callResult.ab < 0
            /\ \A i \in DOMAIN aParts \cap DOMAIN bParts :
                  ( /\ SubSeq(aParts, 1, i - 1) = SubSeq(bParts, 1, i - 1)
                    /\ ~NumericSegment(aParts[i])
                    /\ NumericSegment(bParts[i]) ) => callResult.ab < 0

\* ---- claims on the steps of a document and on the batches ----

\* The order of the awaited steps of one document.
StepOrder ==
    { <<"context_wait", "subtopics_wait">>, <<"context_wait", "oracle_wait">>,
      <<"subtopics_wait", "oracle_wait">>, <<"oracle_wait", "result_wait">> }

\* C25: the steps of a document follow one another in the order context
\* push, taxonomy fetch, oracle call, parse, result submission: a step is
\* issued only in the step that receives the answer to the one before it
\* (the fetch is left out only when there is no subject to fetch for), and
\* the context push of a document is issued only when the batch begins or
\* the submission of the document before it has been answered.
C25_StepsStrictlyOrdered ==
    [][ \A r \in RunIds :
            LET a == runs[r]
                b == runs'[r]
            IN  (b # a /\ b.pc \in InDocument) =>
                    IF b.pc = "context_wait"
                    THEN \/ a.pc \in {"upload_wait", "data_wait"} /\ b.index = 1
                         \/ /\ a.pc = "result_wait" /\ b.index = a.index + 1
                            /\ a.index \in b.persisted
                    ELSE /\ a.pc \in InDocument /\ b.index = a.index
                         /\ <<a.pc, b.pc>> \in StepOrder
                         /\ b.index \in b.contextDone
                         /\ <<a.pc, b.pc>> = <<"context_wait", "oracle_wait">> =>
                                subjectForPrompt(a.contextPayload, a.subjectC) = ""
                         /\ a.pc = "subtopics_wait" => b.subtopicRes # "null"
                         /\ b.pc = "result_wait" =>
                                b.output # NoOutput /\ ~parseAiJsonThrows(b.output) ]_vars

\* The second document of a scraped batch has gone through all its steps.
C25_Witness ==
    /\ runs["scraped"].pc = "result_wait" /\ runs["scraped"].index = 2
    /\ runs["scraped"].contextDone = {1, 2} /\ runs["scraped"].persisted = {1}
    /\ runs["scraped"].subtopicRes = "ok"

\* C26: a batch that is started does not abort the batch started before it:
\* the step that starts a batch leaves the other batch as it is, and a batch
\* changes (and ends) only by a step of its own.
C26_NewBatchDoesNotAbortEarlier ==
    [][ \A r, q \in RunIds :
            (r # q /\ runs'[r] # runs[r]) => runs'[q] = runs[q] ]_vars

\* The uploaded batch is in progress, and the scraped batch, which waited
\* for its first context push when the uploaded batch began, has since
\* pushed contexts, called the oracle and had a result accepted.
C26_Witness ==
    /\ runs["uploaded"].pc \in InDocument
    /\ runs["scraped"].pc = "result_wait" /\ runs["scraped"].index = 2
    /\ runs["scraped"].persisted = {1}

\* C27: while a pipeline runs, isLoading is true.
C27_LoadingWhilePipelineRuns ==
    \A r \in RunIds : runs[r].pc \notin Finished => isLoading

\* C28: a batch of N documents for which the success status is set has had
\* one POST /ai-result per document, issued in array order after the oracle
\* answer for that document, and each answered with success; a batch that
\* is started has none of the submissions of the batches before it.
C28_SuccessMeansEveryResultSubmitted ==
    [][ \A r \in RunIds :
            LET a == runs[r]
                b == runs'[r]
                N == Len(a.documentPayloads)
            IN  /\ (~a.succeeded /\ b.succeeded) =>
                      /\ a.pc = "result_wait" /\ a.index = N
                      /\ b.persisted = 1..N
                /\ (b.pc \notin Finished /\ b.persisted # a.persisted) =>
                      /\ a.pc = "result_wait"
                      /\ a.persisted = 1..(a.index - 1)
                      /\ b.persisted = 1..a.index
                /\ (b.pc = "result_wait" /\ a.pc # "result_wait") =>
                      /\ a.pc = "oracle_wait" /\ b.index = a.index
                      /\ b.index \notin b.persisted
                /\ (a.pc \in Finished /\ b.pc \notin Finished) =>
                      /\ b.persisted = {} /\ b.index = 0 /\ ~b.succeeded ]_vars

\* A batch of two documents has succeeded.
C28_Witness ==
    \E r \in RunIds :
        /\ runs[r].succeeded /\ runs[r].pc = "filters_wait"
        /\ Len(runs[r].documentPayloads) = 2 /\ runs[r].persisted = {1, 2}

\* ---- claims on the order of the groups ----

\* C31: the groups are in ascending compareCodes order of their codes and
\* the subthemes of every group are in ascending compareCodes order,
\* whatever the order of the list grouped.
C31_GroupsAndSubthemesSorted ==
    callResult.fn = "themeGroups" =>
        LET groups == callResult.groups
        IN  /\ \A i, j \in DOMAIN groups :
                  i < j => compareCodes(groups[i].code, groups[j].code) < 0
            /\ \A g \in DOMAIN groups :
                  \A i, j \in DOMAIN groups[g].subthemes :
                      i < j => compareCodes(groups[g].subthemes[i].code,
                                            groups[g].subthemes[j].code) <= 0

\* A list in descending order: 3.1, 1.10, 1.2, 1.1.
C31_Witness ==
    /\ callResult.fn = "themeGroups"
    /\ callArgs.subtopics = <<ItemPool[4], ItemPool[6], ItemPool[3], ItemPool[2]>>
    /\ Len(callResult.groups) = 2
    /\ callResult.groups[1].code = <<"1">> /\ callResult.groups[2].code = <<"3">>
    /\ callResult.groups[1].subthemes = <<ItemPool[2], ItemPool[3], ItemPool[6]>>

\* ---- claims on the page count ----

\* C32: the page count pushed is an integer from 1 to MAX_SCRAPER_PAGES;
\* sanitizePageCount maps a value that is not a number or is below 1 to 1, a
\* value above the maximum to the maximum, and an integer in the range to
\* itself.
C32_PageCountSanitized ==
    callResult.fn = "sanitizePageCount" =>
        LET input == callArgs.input
            result == callResult.scraperPages
        IN  /\ callResult.pages \in 1..MAX_SCRAPER_PAGES
            /\ (~input.numeric \/ input.value < 1) => result = 1
            /\ (input.numeric /\ input.value > MAX_SCRAPER_PAGES) => result = MAX_SCRAPER_PAGES
            /\ (input.numeric /\ input.integer /\ input.value \in 1..MAX_SCRAPER_PAGES) =>
                  result = input.value

\* ---- claims on the list of selected codes ----

\* C37: after any sequence of toggles the list of selected codes has no
\* duplicate and is in ascending compareCodes order; selecting codes that
\* are all selected, or deselecting codes none of which is selected, leaves
\* the list as it was.
C37_SelectionSortedWithoutDuplicates ==
    callResult.fn = "toggleCodes" =>
        LET selected == callResult.selected
            previous == callResult.previous
            codes == callResult.codes
        IN  /\ \A i, j \in DOMAIN selected :
                  i < j => (selected[i] # selected[j]
                              /\ compareCodes(selected[i], selected[j]) < 0)
            /\ (callResult.shouldSelect /\ Range(codes) \subseteq Range(previous)) =>
                  selected = previous
            /\ (~callResult.shouldSelect /\ Range(codes) \cap Range(previous) = {}) =>
                  selected = previous

\* The theme is selected while 1.2 and 1.10 are: the list that results holds
\* them once, 1.2 before 1.10.
C37_Witness ==
    /\ callResult.fn = "toggleCodes"
    /\ callResult.shouldSelect
    /\ callResult.previous = << <<"1", ".", "2">>, <<"1", ".", "1", "0">> >>
    /\ callResult.codes = << <<"1">>, <<"1", ".", "1">>, <<"1", ".", "2">>, <<"1", ".", "1", "0">> >>
    /\ callResult.selected = callResult.codes

\* ---- claims on the session of the contexts ----

\* C35: the client_session_id of the context of every document in progress,
\* which is the context pushed to /context and the context submitted with
\* /ai-result, is the session identifier of this browser, whatever the
\* context the backend supplied carried.
C35_ContextCarriesOwnSession ==
    /\ lastContext # NoContext => lastContext.client_session_id = clientSessionId
    /\ \A r \in RunIds :
          /\ runs[r].pc \in InDocument =>
                runs[r].contextPayload.client_session_id = clientSessionId
          /\ runs[r].pc = "result_wait" =>
                AiResultBody(runs[r]).context.client_session_id = clientSessionId

\* The result of a document whose context came with another session
\* identifier is being submitted.
C35_Witness ==
    /\ runs["scraped"].pc = "result_wait"
    /\ runs["scraped"].documentPayloads[runs["scraped"].index].client_session_id
           = "session-other"
    /\ AiResultBody(runs["scraped"]).context.client_session_id = clientSessionId
    /\ lastContext.client_session_id = clientSessionId

============================================================================
